---- MODULE Spec2Model ----
(***************************************************************************)
(* Verification model of the AI orchestration core of the Roofing          *)
(* Estimator: the backoff request executor (retryRequest), the structured  *)
(* response extractor (cleanJson), the two agent calls and the scan        *)
(* orchestrator (performMasterScan) with its caller (handleWebsiteScan).   *)
(*                                                                         *)
(* Texts are sequences of tokens.  The tokens "{", "}", "[", "]" and " "   *)
(* are the characters cleanJson looks at; every other token is an opaque   *)
(* run of other characters.  Time is the number of milliseconds spent in   *)
(* delay(): requests themselves take no modelled time.                     *)
(***************************************************************************)
EXTENDS Integers, Sequences, FiniteSets, TLC

VARIABLES
    \* ---- retryRequest (one call, its recursion unrolled) ----
    rrState,        \* "idle" | "pending" | "catch" | "delay" | "returned" | "thrown"
    retries,        \* the `retries` parameter of the current frame
    initialDelay,   \* the `initialDelay` parameter of the current frame
    argRetries,     \* `retries` as passed by the caller
    argDelay,       \* `initialDelay` as passed by the caller
    rrError,        \* the value bound to `error` in the catch clause
    thrown,         \* the error the caller's promise rejected with
    returned,       \* the value the caller's promise resolved with
    \* ---- observations of one retryRequest call ----
    invocations,    \* number of times fn() was called
    failures,       \* number of times fn() rejected
    allQuota,       \* every rejection so far was classified as a quota error
    lastRaised,     \* the error of the most recent rejection of fn()
    waits,          \* the arguments of the delay() calls, in order
    clock,          \* milliseconds spent in delay() since the call started
    \* ---- cleanJson applied to one text ----
    cjText,         \* the input text
    cjOut,          \* the value returned
    cjDone,         \* cleanJson has run
    \* ---- the closure of performMasterScan ----
    fnPc,           \* "none" | "inv" | "cooldown" | "plan"
    invData,        \* `invData` of the current attempt
    sources,        \* `sources` of the current attempt
    invDoneAt,      \* clock when the Investigator response was decoded
    planArg,        \* `businessData` of the Planner request of this attempt
    planReqAt,      \* clock when the Planner request was issued
    plannedData,    \* `plannedData` of the attempt that returned
    invRequests,    \* Investigator requests issued in this scan
    invQuotaFails,  \* Investigator calls that failed with a quota error
    invDecoded,     \* Investigator calls that returned decoded data
    planRequests,   \* Planner requests issued in this scan
    stageFailed,    \* stage whose failure ended the latest attempt
    \* ---- App: handleWebsiteScan ----
    config,         \* the business configuration (React state)
    configBefore,   \* config when the running scan was started
    urlToScan,      \* the URL field
    isScanningUrl,  \* the scanning flag
    activeTab,      \* the dashboard tab
    scanAlert,      \* the error whose message the last alert() showed
    scanPhase,      \* "none" | "running" | "merged" | "failed"
    \* ---- AIWidget: React state shared by the text and the voice agent ----
    state,          \* WidgetState
    mode,           \* "text" | "voice"
    leadFormStep,   \* index of the lead form step shown
    widgetConfig,   \* `config` of the widget
    \* ---- AIWidget: handleEstimate and getEstimate ----
    task,           \* the estimate form: description and zipCode
    result,         \* `result`: <<>> (null) or <<the decoded estimate>>
    selectedUpsellIds, \* ids of the upsells the user has selected
    loadingMessage, \* the loading message shown
    interval,       \* -1 (no interval) or `i` of the running interval, modulo 3
    estAlert,       \* text of the last alert() of handleEstimate
    estPhase,       \* "none" | "running" | "shown" | "failed"
    estRequests,    \* upsell list of the prompt of each request, in order
    estResponse,    \* the backend's answer to the latest request
    \* ---- AIWidget: voice session ----
    isVoiceActive,  \* React state
    micPending,     \* startVoiceSession calls awaiting getUserMedia
    streams,        \* number of microphone streams obtained
    streamRef,      \* 0 (null) or the stream held
    liveStreams,    \* streams whose tracks have not been stopped
    scriptProcessorRef,  \* 0 (null) or the processor held
    connectedProcessors, \* processors connected to the input context
    sessionRef,     \* 0 (null) or the session promise held
    sessions,       \* status of every session requested: "connecting" | "open"
    voiceAlert,     \* text of the last alert() of startVoiceSession
    halted,         \* stopVoiceSession ran and no startVoiceSession began since
    \* ---- AIWidget: playback of inbound audio ----
    isAiSpeaking,   \* React state
    audioContextRef,  \* 0 (null) or the output context held
    ctxBorn,        \* now when each output context was created
    now,            \* time, in sample periods of the output rate
    nextStartTimeRef, \* the playback cursor
    sourcesRef,     \* the set of tracked buffer sources
    playing,        \* sources started and neither finished nor stopped
    stopped,        \* sources stopped whose `ended` event is pending
    started,        \* every source.start() call, in order
    decoding,       \* onmessage handlers suspended at the await, in order
    arrivals,       \* number of audio messages delivered to onmessage
    \* ---- one audio sample through capture and playback ----
    pcmPc,          \* "idle" | "input" | "sent" | "played"
    pcmSample,      \* the captured sample, in units of 1/65536
    pcmInt16,       \* the element of the Int16Array after the store
    pcmBase64,      \* the characters of the frame sent, as alphabet indices
    pcmOut,         \* the sample played, in units of 1/32768
    \* ---- AIWidget: the capture of outbound audio ----
    resolved,       \* sessions whose sessionPromise has resolved
    waiting,        \* captured frames whose `then` callback has not run yet
    captured,       \* number of audioprocess events handled
    sent,           \* the calls of session.sendRealtimeInput, in order
    \* ---- AIWidget: the lead form ----
    leadInfo,       \* the fields of the lead form
    leadPhase,      \* "none" | "insert" | "dispatch" | "done"
    supabaseConfigured, \* isSupabaseConfigured()
    leadPayloads,   \* the payloads given to supabase.from('leads').insert
    leadLog         \* what handleLeadSubmit wrote with console.error

rrVars    == <<rrState, retries, initialDelay, argRetries, argDelay, rrError,
               thrown, returned>>
obsVars   == <<invocations, failures, allQuota, lastRaised, waits, clock>>
cjVars    == <<cjText, cjOut, cjDone>>
scanVars  == <<fnPc, invData, sources, invDoneAt, planArg, planReqAt,
               plannedData, invRequests, invQuotaFails, invDecoded,
               planRequests, stageFailed>>
appVars   == <<config, configBefore, urlToScan, isScanningUrl, activeTab,
               scanAlert, scanPhase>>
widgetVars == <<state, mode, leadFormStep, widgetConfig>>
estVars   == <<task, result, selectedUpsellIds, loadingMessage, interval,
               estAlert, estPhase, estRequests, estResponse>>
sessVars  == <<isVoiceActive, micPending, streams, streamRef, liveStreams,
               scriptProcessorRef, connectedProcessors, sessionRef, sessions,
               voiceAlert, halted>>
playVars  == <<isAiSpeaking, audioContextRef, ctxBorn, now, nextStartTimeRef,
               sourcesRef, playing, stopped, started, decoding, arrivals>>
pcmVars   == <<pcmPc, pcmSample, pcmInt16, pcmBase64, pcmOut>>
capVars   == <<resolved, waiting, captured, sent>>
leadVars  == <<leadInfo, leadPhase, supabaseConfigured, leadPayloads, leadLog>>
uiVars    == <<widgetVars, estVars, sessVars, playVars, pcmVars, capVars, leadVars>>
vars      == <<rrVars, obsVars, cjVars, scanVars, appVars, uiVars>>

(***************************************************************************)
(* Bounds of the model and constants of the program.                       *)
(***************************************************************************)
MaxRetriesArg == 3          \* largest retry budget passed to retryRequest
MaxTextLen == 4             \* longest text given to cleanJson on its own
MaxFrames == 2              \* audio messages delivered in one behaviour
MaxClock == 1               \* sample periods the audio clock advances

DefaultRetries == 3         \* retryRequest(fn, retries = 3, ...)
DefaultInitialDelay == 8000 \* retryRequest(fn, ..., initialDelay = 8000)
CooldownMs == 3000          \* await delay(3000)
QuotaStatus == 429          \* error?.status === 429
Int16Scale == 32768         \* int16[i] = inputData[i] * 32768

\* The initial delays a caller passes: the default and the 5000 ms policy.
DelayArgs == {5000, DefaultInitialDelay}

(***************************************************************************)
(* Small helpers on sequences and objects.                                 *)
(***************************************************************************)
Includes(s, m) == \E i \in DOMAIN s : s[i] = m

Pow2(n) == 2 ^ n

SumSeq(s) ==
    LET F[i \in 0..Len(s)] == IF i = 0 THEN 0 ELSE F[i - 1] + s[i]
    IN F[Len(s)]

EmptyObject == [k \in {} |-> <<>>]

\* { ...target, ...src }: own keys of both, src winning on a shared key.
Spread(target, src) ==
    [k \in (DOMAIN target) \cup (DOMAIN src) |->
        IF k \in DOMAIN src THEN src[k] ELSE target[k]]

(***************************************************************************)
(* Errors.  An error carries what the classification of retryRequest       *)
(* reads: its status, the text of its message (not enumerable, so not in   *)
(* JSON.stringify) and the text of its other own enumerable properties.    *)
(***************************************************************************)
NoStatus == 0
NoError == [name |-> "none", status |-> NoStatus, message |-> <<>>, props |-> <<>>]

\* ApiError of the SDK for an HTTP 429 response.
ApiError429 ==
    [name |-> "ApiError", status |-> QuotaStatus,
     message |-> <<"429", "RESOURCE_EXHAUSTED">>, props |-> <<>>]
\* ApiError of the SDK for an HTTP 500 response.
ApiError500 ==
    [name |-> "ApiError", status |-> 500, message |-> <<"INTERNAL">>, props |-> <<>>]
\* A rejected plain object whose body names the marker.
ExhaustedObject ==
    [name |-> "Object", status |-> NoStatus, message |-> <<>>,
     props |-> <<"RESOURCE_EXHAUSTED">>]
\* An Error whose message quotes the status code.
Message429 ==
    [name |-> "Error", status |-> NoStatus, message |-> <<"429">>, props |-> <<>>]
\* An Error whose message alone names the marker.
MessageExhausted ==
    [name |-> "Error", status |-> NoStatus,
     message |-> <<"RESOURCE_EXHAUSTED">>, props |-> <<>>]
\* A network failure.
NetworkError ==
    [name |-> "TypeError", status |-> NoStatus,
     message |-> <<"Failed to fetch">>, props |-> <<>>]

FnErrors == {ApiError429, ApiError500, ExhaustedObject, Message429,
             MessageExhausted, NetworkError}

\* The text of a status inside JSON.stringify(error).
StatusText(s) ==
    IF s = NoStatus THEN <<>>
    ELSE IF s = QuotaStatus THEN <<"429">>
    ELSE <<"status">>

\* JSON.stringify(error): the own enumerable properties, `message` not among them.
JSONstringify(e) == e.props \o StatusText(e.status)

\* isQuotaError of retryRequest.
IsQuotaError(error) ==
    \/ Includes(JSONstringify(error), "429")
    \/ Includes(JSONstringify(error), "RESOURCE_EXHAUSTED")
    \/ Includes(error.message, "429")
    \/ error.status = QuotaStatus

(***************************************************************************)
(* cleanJson.  Indices are 0-based as in the source; -1 means not found.   *)
(***************************************************************************)
IndexOf(text, c) ==
    IF Includes(text, c)
    THEN (CHOOSE i \in DOMAIN text :
            text[i] = c /\ \A j \in DOMAIN text : text[j] = c => i <= j) - 1
    ELSE -1

LastIndexOf(text, c) ==
    IF Includes(text, c)
    THEN (CHOOSE i \in DOMAIN text :
            text[i] = c /\ \A j \in DOMAIN text : text[j] = c => j <= i) - 1
    ELSE -1

Clamp(n, len) == IF n < 0 THEN 0 ELSE IF n > len THEN len ELSE n

\* String.prototype.substring(a, b): clamps both, swaps them when a > b.
Substring(text, a, b) ==
    LET ca == Clamp(a, Len(text))
        cb == Clamp(b, Len(text))
        lo == IF ca <= cb THEN ca ELSE cb
        hi == IF ca <= cb THEN cb ELSE ca
    IN SubSeq(text, lo + 1, hi)

\* String.prototype.trim() for the whitespace token " ".
Trim(text) ==
    IF \A i \in DOMAIN text : text[i] = " " THEN <<>>
    ELSE LET first == CHOOSE i \in DOMAIN text :
                        text[i] # " " /\ \A j \in 1..(i - 1) : text[j] = " "
             last  == CHOOSE i \in DOMAIN text :
                        text[i] # " " /\ \A j \in (i + 1)..Len(text) : text[j] = " "
         IN SubSeq(text, first, last)

cleanJson(text) ==
    LET start == IndexOf(text, "{")
        end == LastIndexOf(text, "}")
        arrayStart == IndexOf(text, "[")
        arrayEnd == LastIndexOf(text, "]")
    IN IF start # -1 /\ end # -1 THEN Substring(text, start, end + 1)
       ELSE IF arrayStart # -1 /\ arrayEnd # -1 THEN Substring(text, arrayStart, arrayEnd + 1)
       ELSE Trim(text)

(***************************************************************************)
(* retryRequest.  The recursion `return retryRequest(fn, retries - 1,      *)
(* initialDelay * 2)` is unrolled: one frame is live at a time and its     *)
(* result is the caller's result.                                          *)
(***************************************************************************)
NoResult == EmptyObject

\* retryRequest(fn, r, d) is called: the try block calls fn() at once.
EnterRetryRequest(r, d) ==
    /\ rrState' = "pending"
    /\ retries' = r
    /\ initialDelay' = d
    /\ argRetries' = r
    /\ argDelay' = d
    /\ rrError' = NoError
    /\ thrown' = NoError
    /\ returned' = NoResult
    /\ invocations' = 1
    /\ failures' = 0
    /\ allQuota' = TRUE
    /\ lastRaised' = NoError
    /\ waits' = <<>>
    /\ clock' = 0

\* `return await fn()` when fn() resolves with value.
FnResolve(value) ==
    /\ rrState = "pending"
    /\ rrState' = "returned"
    /\ returned' = value
    /\ UNCHANGED <<retries, initialDelay, argRetries, argDelay, rrError, thrown>>
    /\ UNCHANGED obsVars

\* `await fn()` when fn() rejects with e: control enters the catch clause.
FnReject(e) ==
    /\ rrState = "pending"
    /\ rrState' = "catch"
    /\ rrError' = e
    /\ failures' = failures + 1
    /\ allQuota' = (allQuota /\ IsQuotaError(e))
    /\ lastRaised' = e
    /\ UNCHANGED <<retries, initialDelay, argRetries, argDelay, thrown, returned>>
    /\ UNCHANGED <<invocations, waits, clock>>

RetryCatchAnyError ==
    /\ rrState = "catch"
    /\ IF retries > 0
       THEN rrState' = "delay" /\ thrown' = thrown
       ELSE rrState' = "thrown" /\ thrown' = rrError
    /\ UNCHANGED <<retries, initialDelay, argRetries, argDelay, rrError, returned>>
    /\ UNCHANGED obsVars

RetryCatchWrapsError ==
    /\ rrState = "catch"
    /\ IF IsQuotaError(rrError) /\ retries > 0
       THEN rrState' = "delay" /\ thrown' = thrown
       ELSE rrState' = "thrown"
            /\ thrown' = [rrError EXCEPT !.name = "Error", !.message = <<"Request failed">>]
    /\ UNCHANGED <<retries, initialDelay, argRetries, argDelay, rrError, returned>>
    /\ UNCHANGED obsVars

\* The catch clause up to `await delay(initialDelay)` or `throw error`.
RetryCatch ==
    /\ rrState = "catch"
    /\ IF IsQuotaError(rrError) /\ retries > 0
       THEN rrState' = "delay" /\ thrown' = thrown
       ELSE rrState' = "thrown" /\ thrown' = rrError
    /\ UNCHANGED <<retries, initialDelay, argRetries, argDelay, rrError, returned>>
    /\ UNCHANGED obsVars

BackoffConstantDelay ==
    /\ rrState = "delay"
    /\ waits' = Append(waits, initialDelay)
    /\ clock' = clock + initialDelay
    /\ retries' = retries - 1
    /\ initialDelay' = initialDelay
    /\ rrError' = NoError
    /\ rrState' = "pending"
    /\ invocations' = invocations + 1
    /\ UNCHANGED <<argRetries, argDelay, thrown, returned>>
    /\ UNCHANGED <<failures, allQuota, lastRaised>>

\* delay(initialDelay) elapses; retryRequest(fn, retries - 1, initialDelay * 2)
\* is entered and calls fn() again.
Backoff ==
    /\ rrState = "delay"
    /\ waits' = Append(waits, initialDelay)
    /\ clock' = clock + initialDelay
    /\ retries' = retries - 1
    /\ initialDelay' = initialDelay * 2
    /\ rrError' = NoError
    /\ rrState' = "pending"
    /\ invocations' = invocations + 1
    /\ UNCHANGED <<argRetries, argDelay, thrown, returned>>
    /\ UNCHANGED <<failures, allQuota, lastRaised>>

RetrySettled == rrState \in {"returned", "thrown"}

(***************************************************************************)
(* Neutral values of the parts a specification does not exercise.          *)
(***************************************************************************)
RetryIdle ==
    /\ rrState = "idle"
    /\ rrError = NoError /\ thrown = NoError /\ returned = NoResult
    /\ invocations = 0 /\ failures = 0 /\ allQuota = TRUE
    /\ lastRaised = NoError /\ waits = <<>> /\ clock = 0

CleanIdle == cjText = <<>> /\ cjOut = <<>> /\ cjDone = FALSE

ScanIdle ==
    /\ fnPc = "none"
    /\ invData = EmptyObject /\ sources = <<>> /\ invDoneAt = -1
    /\ planArg = EmptyObject /\ planReqAt = -1 /\ plannedData = EmptyObject
    /\ invRequests = 0 /\ invQuotaFails = 0 /\ invDecoded = 0 /\ planRequests = 0
    /\ stageFailed = "none"

AppIdle ==
    /\ config = EmptyObject /\ configBefore = EmptyObject
    /\ urlToScan = "" /\ isScanningUrl = FALSE /\ activeTab = "dashboard"
    /\ scanAlert = NoError /\ scanPhase = "none"

NoResponse == [kind |-> "none", text |-> <<>>, chunks |-> <<>>, error |-> NoError]

WidgetIdle ==
    /\ state = "CLOSED" /\ mode = "text" /\ leadFormStep = 0
    /\ widgetConfig = EmptyObject

EstimateIdle ==
    /\ task = [description |-> "", zipCode |-> ""]
    /\ result = <<>> /\ selectedUpsellIds = <<>>
    /\ loadingMessage = "Agent thinking..." /\ interval = -1
    /\ estAlert = "" /\ estPhase = "none" /\ estRequests = <<>>
    /\ estResponse = NoResponse

SessionIdle ==
    /\ isVoiceActive = FALSE /\ micPending = 0
    /\ streams = 0 /\ streamRef = 0 /\ liveStreams = {}
    /\ scriptProcessorRef = 0 /\ connectedProcessors = {}
    /\ sessionRef = 0 /\ sessions = <<>>
    /\ voiceAlert = "" /\ halted = FALSE

PlaybackIdle ==
    /\ isAiSpeaking = FALSE /\ audioContextRef = 0 /\ ctxBorn = <<>>
    /\ now = 0 /\ nextStartTimeRef = 0
    /\ sourcesRef = {} /\ playing = {} /\ stopped = {}
    /\ started = <<>> /\ decoding = <<>> /\ arrivals = 0

PcmIdle ==
    /\ pcmPc = "idle" /\ pcmSample = 0 /\ pcmInt16 = 0
    /\ pcmBase64 = <<>> /\ pcmOut = 0

CaptureIdle == resolved = {} /\ waiting = <<>> /\ captured = 0 /\ sent = <<>>

\* The fields of leadInfo, in the order of the keys of leadGenConfig.fields.
LeadFields ==
    <<"name", "email", "phone", "city", "company", "notes", "customField",
      "serviceType", "date", "time">>

\* useState({name: '', email: '', ...}): every field but customField, empty.
EmptyLead ==
    [f \in {LeadFields[i] : i \in DOMAIN LeadFields} \ {"customField"} |-> ""]

LeadIdle ==
    /\ leadInfo = EmptyLead /\ leadPhase = "none" /\ supabaseConfigured = FALSE
    /\ leadPayloads = <<>> /\ leadLog = <<>>

UiIdle ==
    /\ WidgetIdle /\ EstimateIdle /\ SessionIdle /\ PlaybackIdle /\ PcmIdle
    /\ CaptureIdle /\ LeadIdle

(***************************************************************************)
(* retryRequest around an arbitrary unit of work: each invocation of fn    *)
(* either resolves or rejects with one of FnErrors.                        *)
(***************************************************************************)
GenericValue == [value |-> <<"result">>]

InitRetry ==
    /\ RetryIdle
    /\ argRetries \in 0..MaxRetriesArg
    /\ argDelay \in DelayArgs
    /\ retries = argRetries
    /\ initialDelay = argDelay
    /\ CleanIdle /\ ScanIdle /\ AppIdle /\ UiIdle

GenericCall ==
    /\ rrState = "idle"
    /\ EnterRetryRequest(argRetries, argDelay)
    /\ UNCHANGED <<cjVars, scanVars, appVars, uiVars>>

GenericResolve ==
    /\ FnResolve(GenericValue)
    /\ UNCHANGED <<cjVars, scanVars, appVars, uiVars>>

GenericReject ==
    /\ \E e \in FnErrors : FnReject(e)
    /\ UNCHANGED <<cjVars, scanVars, appVars, uiVars>>

GenericCatch ==
    /\ RetryCatch
    /\ UNCHANGED <<cjVars, scanVars, appVars, uiVars>>

GenericBackoff ==
    /\ Backoff
    /\ UNCHANGED <<cjVars, scanVars, appVars, uiVars>>

NextRetry ==
    \/ GenericCall
    \/ GenericResolve
    \/ GenericReject
    \/ GenericCatch
    \/ GenericBackoff

SpecRetry == InitRetry /\ [][NextRetry]_vars

\* Every invocation of fn settles and every timer fires.
FairSpecRetry == SpecRetry /\ WF_vars(NextRetry)

(***************************************************************************)
(* Properties of retryRequest.                                            *)
(***************************************************************************)
RetryCountInv ==
    /\ invocations <= argRetries + 1
    /\ (rrState = "returned" /\ allQuota) =>
          (invocations - 1 = failures /\ failures <= argRetries)
    /\ (rrState = "thrown" /\ allQuota) =>
          (invocations - 1 = argRetries /\ failures = argRetries + 1)
    /\ ~allQuota => (rrState \in {"catch", "thrown"} /\ invocations = failures)
    /\ (rrState = "thrown" /\ ~allQuota) => ~IsQuotaError(thrown)
    /\ (rrState = "thrown" /\ IsQuotaError(thrown)) => retries = 0

\* C1: with only quota-classified failures fn is re-invoked exactly
\* min(maxRetries, failures before the first success) times, it runs at most
\* maxRetries + 1 times, a failure that is not quota-classified is followed by
\* no retry, a quota error reaches the caller only with the budget exhausted,
\* and the call always settles.
C1_RetryCount == [](RetryCountInv) /\ <>(RetrySettled)

C1_Witness ==
    /\ rrState = "returned" /\ argRetries = 3 /\ failures = 2 /\ invocations = 3

\* C2: the wait before the k-th retry is initialDelay * 2^(k-1), one wait
\* precedes each re-invocation, and three quota failures then a success under
\* maxRetries = 3, initialDelay = 5000 are observed after at least 35000 ms.
C2_DoublingDelay ==
    /\ \A k \in DOMAIN waits : waits[k] = argDelay * Pow2(k - 1)
    /\ \A k \in DOMAIN waits : k > 1 => waits[k] > waits[k - 1]
    /\ rrState # "idle" => Len(waits) = invocations - 1
    /\ clock = SumSeq(waits)
    /\ (rrState = "returned" /\ argRetries = 3 /\ argDelay = 5000 /\ failures = 3) =>
          clock >= 5000 + 10000 + 20000

C2_Witness ==
    /\ rrState = "returned" /\ argRetries = 3 /\ argDelay = 5000 /\ failures = 3
    /\ waits = <<5000, 10000, 20000>>

\* C3: when retryRequest gives up, the caller receives exactly the error of
\* the last invocation of fn, and neither a delay nor an invocation follows
\* that failure.
C3_ErrorUnchanged ==
    rrState = "thrown" =>
        /\ thrown = lastRaised
        /\ thrown # NoError
        /\ invocations = failures
        /\ Len(waits) = failures - 1
        /\ (~IsQuotaError(thrown) \/ retries = 0)

C3_Witness ==
    /\ rrState = "thrown" /\ failures = 2 /\ thrown = ApiError500

(***************************************************************************)
(* cleanJson on its own: every text over CleanChars up to MaxTextLen.      *)
(***************************************************************************)
CleanChars == {"{", "}", "[", "]", " ", "a"}

TextsUpTo(n) == UNION {[1..k -> CleanChars] : k \in 0..n}

InitClean ==
    /\ cjText \in TextsUpTo(MaxTextLen)
    /\ cjOut = <<>>
    /\ cjDone = FALSE
    /\ RetryIdle /\ ScanIdle /\ AppIdle /\ UiIdle
    /\ argRetries = 0 /\ argDelay = 0 /\ retries = 0 /\ initialDelay = 0

RunCleanJson ==
    /\ ~cjDone
    /\ cjOut' = cleanJson(cjText)
    /\ cjDone' = TRUE
    /\ UNCHANGED <<cjText, rrVars, obsVars, scanVars, appVars, uiVars>>

NextClean == RunCleanJson

SpecClean == InitClean /\ [][NextClean]_vars

HasBoth(text, open, close) == Includes(text, open) /\ Includes(text, close)

\* text from the first `open` to the last `close`, both included.
Span(text, open, close) ==
    SubSeq(text, IndexOf(text, open) + 1, LastIndexOf(text, close) + 1)

StartsAndEndsWith(out, open, close) ==
    /\ Len(out) >= 1
    /\ out[1] = open
    /\ out[Len(out)] = close

\* C10: cleanJson(t) is the text from the first '{' to the last '}' when both
\* occur, else the text from the first '[' to the last ']' when both occur,
\* else t trimmed; in the first two cases the result starts with the opening
\* and ends with the closing character wherever the two stand in t.
C10_CleanJsonSpans ==
    cjDone =>
        IF HasBoth(cjText, "{", "}")
        THEN cjOut = Span(cjText, "{", "}") /\ StartsAndEndsWith(cjOut, "{", "}")
        ELSE IF HasBoth(cjText, "[", "]")
        THEN cjOut = Span(cjText, "[", "]") /\ StartsAndEndsWith(cjOut, "[", "]")
        ELSE cjOut = Trim(cjText)

(***************************************************************************)
(* Backend responses.  A JSON object text is "{", one token standing for   *)
(* its member list, "}".  A decoded object maps each key to its value, a   *)
(* tuple (a one-element tuple for a scalar).                               *)
(***************************************************************************)
InventedSources == <<[title |-> "Invented", url |-> "https://invented.example"]>>

InvFull ==
    [name |-> <<"Apex Roofing">>, industry |-> <<"Roofing">>, services |-> <<"Repair">>]
InvPartial == [name |-> <<"Apex Roofing">>]
InvExtra ==
    [name |-> <<"Apex Roofing">>, industry |-> <<"Roofing">>, services |-> <<"Repair">>,
     primaryColor |-> <<"#000000">>, intelligenceSources |-> InventedSources]

PlanFull ==
    [pricingRules |-> <<"$450-$550 per square">>, manualPriceList |-> <<"item-1">>,
     headerTitle |-> <<"Get a roof quote">>, primaryColor |-> <<"#1d4ed8">>]
PlanPartial ==
    [pricingRules |-> <<"$450-$550 per square">>, primaryColor |-> <<"#1d4ed8">>]
PlanOverlap ==
    [pricingRules |-> <<"$450-$550 per square">>, manualPriceList |-> <<"item-1">>,
     headerTitle |-> <<"Get a roof quote">>, primaryColor |-> <<"#1d4ed8">>,
     name |-> <<"Apex Roofing LLC">>, services |-> <<"Install", "Inspect">>,
     intelligenceSources |-> InventedSources]

\* Decoded estimates: the costs as the backend gives them, and its choice of
\* upsell ids, which may be absent, empty, or name ids no profile approves.
EstFull ==
    [estimatedCostRange |-> <<"$6,000 - $8,500">>, baseMinCost |-> <<6000>>,
     baseMaxCost |-> <<8500>>, suggestedUpsellIds |-> <<"upsell-1">>]
EstInverted ==
    [estimatedCostRange |-> <<"$8,500 - $6,000">>, baseMinCost |-> <<8500>>,
     baseMaxCost |-> <<6000>>, suggestedUpsellIds |-> <<"upsell-2">>]
EstNoIds ==
    [estimatedCostRange |-> <<"$6,000 - $8,500">>, baseMinCost |-> <<6000>>,
     baseMaxCost |-> <<8500>>]
EstEmptyIds ==
    [estimatedCostRange |-> <<"$7,000">>, baseMinCost |-> <<7000>>,
     baseMaxCost |-> <<7000>>, suggestedUpsellIds |-> <<>>]
EstGhostIds ==
    [estimatedCostRange |-> <<"$6,000 - $8,500">>, baseMinCost |-> <<6000>>,
     baseMaxCost |-> <<8500>>, suggestedUpsellIds |-> <<"upsell-3", "upsell-9">>]

EstTokens == {"estFull", "estInverted", "estNoIds", "estEmptyIds", "estGhostIds"}

MemberTokens ==
    {"invFull", "invPartial", "invExtra", "planFull", "planPartial", "planOverlap"}
        \cup EstTokens

Members(tok) ==
    CASE tok = "invFull" -> InvFull
      [] tok = "invPartial" -> InvPartial
      [] tok = "invExtra" -> InvExtra
      [] tok = "planFull" -> PlanFull
      [] tok = "planPartial" -> PlanPartial
      [] tok = "planOverlap" -> PlanOverlap
      [] tok = "estFull" -> EstFull
      [] tok = "estInverted" -> EstInverted
      [] tok = "estNoIds" -> EstNoIds
      [] tok = "estEmptyIds" -> EstEmptyIds
      [] tok = "estGhostIds" -> EstGhostIds

\* required: [...] of the two response schemas.
InvRequired == {"name", "industry", "services"}
PlanRequired == {"pricingRules", "manualPriceList", "headerTitle", "primaryColor"}

\* The SyntaxError of JSON.parse: its message quotes the text it rejected
\* (V8: Unexpected token 'E', "Error 429" is not valid JSON).
SyntaxErrorFor(text) ==
    [name |-> "SyntaxError", status |-> NoStatus,
     message |-> <<"Unexpected token">> \o text \o <<"is not valid JSON">>,
     props |-> <<>>]

\* JSON.parse(text): surrounding whitespace is skipped.
JSONparse(text) ==
    LET s == Trim(text)
    IN IF Len(s) = 3 /\ s[1] = "{" /\ s[3] = "}" /\ s[2] \in MemberTokens
       THEN [ok |-> TRUE, value |-> Members(s[2]), error |-> NoError]
       ELSE IF s = <<"{", "}">>
       THEN [ok |-> TRUE, value |-> EmptyObject, error |-> NoError]
       ELSE [ok |-> FALSE, value |-> EmptyObject, error |-> SyntaxErrorFor(s)]

ObjectText(tok) == <<"{", tok, "}">>
FencedText(tok) == <<"Here is the JSON:", " ", "{", tok, "}", " ">>
\* response.text is undefined when the candidate has no text part: cleanJson
\* returns it as it is and JSON.parse reads it as the text "undefined".
NoText == <<"undefined">>
ProseOnly == <<"I could not find this business">>
ProseWith429 == <<"Found", "429", "reviews">>
TrailingBrace(tok) == <<"{", tok, "}", "so", "}">>

InvTexts ==
    {ObjectText("invFull"), FencedText("invFull"), ObjectText("invPartial"),
     ObjectText("invExtra"), NoText, ProseWith429, TrailingBrace("invFull")}

PlanTexts ==
    {ObjectText("planFull"), FencedText("planFull"), ObjectText("planPartial"),
     ObjectText("planOverlap"), ProseOnly, ProseWith429}

ChunkLists ==
    {<<>>,
     <<[web |-> TRUE, title |-> "", uri |-> "https://apex.example"],
       [web |-> FALSE, title |-> "", uri |-> ""],
       [web |-> TRUE, title |-> "Yelp", uri |-> "https://yelp.example/apex"]>>}

BackendErrors == {ApiError429, ApiError500, NetworkError}

TextResponse(t, c) == [kind |-> "text", text |-> t, chunks |-> c, error |-> NoError]
ErrorResponse(e) == [kind |-> "error", text |-> <<>>, chunks |-> <<>>, error |-> e]

InvResponses ==
    {TextResponse(t, c) : t \in InvTexts, c \in ChunkLists}
        \cup {ErrorResponse(e) : e \in BackendErrors}

PlanResponses ==
    {TextResponse(t, <<>>) : t \in PlanTexts} \cup {ErrorResponse(e) : e \in BackendErrors}

EstTexts == {ObjectText(tok) : tok \in EstTokens} \cup {FencedText("estFull"), ProseOnly}

EstResponses ==
    {TextResponse(t, <<>>) : t \in EstTexts} \cup {ErrorResponse(e) : e \in BackendErrors}

(***************************************************************************)
(* The two agents: what each makes of the backend's answer.                *)
(***************************************************************************)
\* groundingChunks?.forEach(chunk => { if (chunk.web) sources.push(...) })
GroundingSources(chunks) ==
    LET F[i \in 0..Len(chunks)] ==
            IF i = 0 THEN <<>>
            ELSE IF chunks[i].web
                 THEN Append(F[i - 1],
                        [title |-> IF chunks[i].title = "" THEN "Source"
                                   ELSE chunks[i].title,
                         url |-> chunks[i].uri])
                 ELSE F[i - 1]
    IN F[Len(chunks)]

Failed(e) == [ok |-> FALSE, data |-> EmptyObject, sources |-> <<>>, error |-> e]

investigatorAgent(resp) ==
    IF resp.kind = "error" THEN Failed(resp.error)
    ELSE LET parsed == JSONparse(cleanJson(resp.text))
         IN IF parsed.ok
            THEN [ok |-> TRUE, data |-> parsed.value,
                  sources |-> GroundingSources(resp.chunks), error |-> NoError]
            ELSE Failed(parsed.error)

masterPlannerAgent(resp) ==
    IF resp.kind = "error" THEN Failed(resp.error)
    ELSE LET parsed == JSONparse(cleanJson(resp.text))
         IN IF parsed.ok
            THEN [ok |-> TRUE, data |-> parsed.value, sources |-> <<>>, error |-> NoError]
            ELSE Failed(parsed.error)

MergeProfilePlannerFirst(inv, plan, src) ==
    Spread(Spread(Spread(EmptyObject, [intelligenceSources |-> src]), plan), inv)

\* { ...invData, ...plannedData, intelligenceSources: sources }
MergeProfile(inv, plan, src) ==
    Spread(Spread(Spread(EmptyObject, inv), plan), [intelligenceSources |-> src])

(***************************************************************************)
(* performMasterScan: retryRequest around the closure that runs both       *)
(* agents, called by handleWebsiteScan.                                    *)
(***************************************************************************)
INITIAL_CONFIG ==
    [name |-> <<"Apex Roofing Local">>, industry |-> <<"Roofing & Exterior Siding">>,
     primaryColor |-> <<"#b91c1c">>, headerTitle |-> <<"RoofBot Estimator">>,
     hoverTitle |-> <<"Get Roof Quote">>,
     services |-> <<"Asphalt Shingle Roof", "Metal Roofing">>,
     intelligenceSources |-> <<>>]

Urls == {"", "https://prospect-website.com"}

\* The closure starts: investigatorAgent sends its request at once.
ScanFnStart ==
    /\ fnPc' = "inv"
    /\ invData' = EmptyObject
    /\ sources' = <<>>
    /\ invDoneAt' = -1
    /\ planArg' = EmptyObject
    /\ planReqAt' = -1
    /\ plannedData' = EmptyObject
    /\ stageFailed' = "none"

InitScan ==
    /\ RetryIdle
    /\ argRetries = DefaultRetries /\ retries = DefaultRetries
    /\ argDelay = DefaultInitialDelay /\ initialDelay = DefaultInitialDelay
    /\ CleanIdle /\ ScanIdle /\ UiIdle
    /\ config = INITIAL_CONFIG /\ configBefore = INITIAL_CONFIG
    /\ urlToScan = "" /\ isScanningUrl = FALSE /\ activeTab = "dashboard"
    /\ scanAlert = NoError /\ scanPhase = "none"

\* onChange of the URL field.
SetUrlToScan ==
    /\ \E u \in Urls : u # urlToScan /\ urlToScan' = u
    /\ UNCHANGED <<rrVars, obsVars, cjVars, scanVars>>
    /\ UNCHANGED <<config, configBefore, isScanningUrl, activeTab, scanAlert, scanPhase>>
    /\ UNCHANGED uiVars

\* handleWebsiteScan up to `await performMasterScan(...)`; the submit button
\* is disabled while isScanningUrl.
HandleWebsiteScan ==
    /\ urlToScan # ""
    /\ ~isScanningUrl
    /\ isScanningUrl' = TRUE
    /\ configBefore' = config
    /\ scanPhase' = "running"
    /\ scanAlert' = NoError
    /\ EnterRetryRequest(DefaultRetries, DefaultInitialDelay)
    /\ ScanFnStart
    /\ invQuotaFails' = 0
    /\ invDecoded' = 0
    /\ planRequests' = 0
    /\ invRequests' = 1
    /\ UNCHANGED <<config, urlToScan, activeTab, cjVars>>
    /\ UNCHANGED uiVars

\* The Investigator response arrives: investigatorAgent returns or throws.
InvestigatorResponds ==
    /\ rrState = "pending"
    /\ fnPc = "inv"
    /\ \E resp \in InvResponses :
        LET out == investigatorAgent(resp)
        IN IF out.ok
           THEN /\ invData' = out.data
                /\ sources' = out.sources
                /\ invDoneAt' = clock
                /\ fnPc' = "cooldown"
                /\ invDecoded' = invDecoded + 1
                /\ UNCHANGED <<stageFailed, invQuotaFails>>
                /\ UNCHANGED <<rrVars, obsVars>>
           ELSE /\ FnReject(out.error)
                /\ fnPc' = "none"
                /\ stageFailed' = "investigator"
                /\ invQuotaFails' = invQuotaFails + (IF IsQuotaError(out.error) THEN 1 ELSE 0)
                /\ UNCHANGED <<invData, sources, invDoneAt, invDecoded>>
    /\ UNCHANGED <<planArg, planReqAt, plannedData, invRequests, planRequests>>
    /\ UNCHANGED <<cjVars, appVars, uiVars>>

CooldownSkipped ==
    /\ rrState = "pending"
    /\ fnPc = "cooldown"
    /\ clock' = clock
    /\ planArg' = invData
    /\ planReqAt' = clock'
    /\ planRequests' = planRequests + 1
    /\ fnPc' = "plan"
    /\ UNCHANGED <<invocations, failures, allQuota, lastRaised, waits>>
    /\ UNCHANGED <<invData, sources, invDoneAt, plannedData, invRequests,
                   invQuotaFails, invDecoded, stageFailed>>
    /\ UNCHANGED <<rrVars, cjVars, appVars, uiVars>>

\* delay(3000) elapses; masterPlannerAgent(ai, invData) sends its request.
CooldownElapsed ==
    /\ rrState = "pending"
    /\ fnPc = "cooldown"
    /\ clock' = clock + CooldownMs
    /\ planArg' = invData
    /\ planReqAt' = clock'
    /\ planRequests' = planRequests + 1
    /\ fnPc' = "plan"
    /\ UNCHANGED <<invocations, failures, allQuota, lastRaised, waits>>
    /\ UNCHANGED <<invData, sources, invDoneAt, plannedData, invRequests,
                   invQuotaFails, invDecoded, stageFailed>>
    /\ UNCHANGED <<rrVars, cjVars, appVars, uiVars>>

\* The Planner response arrives: the closure returns the merge or throws.
PlannerResponds ==
    /\ rrState = "pending"
    /\ fnPc = "plan"
    /\ \E resp \in PlanResponses :
        LET out == masterPlannerAgent(resp)
        IN IF out.ok
           THEN /\ plannedData' = out.data
                /\ FnResolve(MergeProfile(invData, out.data, sources))
                /\ UNCHANGED stageFailed
           ELSE /\ FnReject(out.error)
                /\ stageFailed' = "planner"
                /\ UNCHANGED plannedData
    /\ fnPc' = "none"
    /\ UNCHANGED <<invData, sources, invDoneAt, planArg, planReqAt, invRequests,
                   invQuotaFails, invDecoded, planRequests>>
    /\ UNCHANGED <<cjVars, appVars, uiVars>>

ScanCatch ==
    /\ scanPhase = "running"
    /\ RetryCatch
    /\ UNCHANGED <<cjVars, scanVars, appVars, uiVars>>

\* The backoff delay elapses and the whole closure is invoked again.
ScanBackoff ==
    /\ scanPhase = "running"
    /\ Backoff
    /\ ScanFnStart
    /\ invRequests' = invRequests + 1
    /\ UNCHANGED <<invQuotaFails, invDecoded, planRequests>>
    /\ UNCHANGED <<cjVars, appVars, uiVars>>

ScanSettledMergesStageOne ==
    /\ scanPhase = "running"
    /\ RetrySettled
    /\ IF rrState = "returned"
       THEN /\ config' = Spread(config, returned)
            /\ activeTab' = "services"
            /\ scanPhase' = "merged"
            /\ UNCHANGED scanAlert
       ELSE /\ scanAlert' = thrown
            /\ scanPhase' = "failed"
            /\ config' = Spread(config, invData)
            /\ UNCHANGED activeTab
    /\ isScanningUrl' = FALSE
    /\ urlToScan' = ""
    /\ UNCHANGED <<configBefore, rrVars, obsVars, cjVars, scanVars>>
    /\ UNCHANGED uiVars

\* handleWebsiteScan after the await: the try, catch and finally blocks.
ScanSettled ==
    /\ scanPhase = "running"
    /\ RetrySettled
    /\ IF rrState = "returned"
       THEN /\ config' = Spread(config, returned)
            /\ activeTab' = "services"
            /\ scanPhase' = "merged"
            /\ UNCHANGED scanAlert
       ELSE /\ scanAlert' = thrown
            /\ scanPhase' = "failed"
            /\ UNCHANGED <<config, activeTab>>
    /\ isScanningUrl' = FALSE
    /\ urlToScan' = ""
    /\ UNCHANGED <<configBefore, rrVars, obsVars, cjVars, scanVars>>
    /\ UNCHANGED uiVars

NextScan ==
    \/ SetUrlToScan
    \/ HandleWebsiteScan
    \/ InvestigatorResponds
    \/ CooldownElapsed
    \/ PlannerResponds
    \/ ScanCatch
    \/ ScanBackoff
    \/ ScanSettled

SpecScan == InitScan /\ [][NextScan]_vars

(***************************************************************************)
(* Properties of the scan.                                                *)
(***************************************************************************)
ScanReturned == rrState = "returned" /\ scanPhase \in {"running", "merged"}

\* C4: every agent call is retried on its own: in a scan that ends in success
\* the Investigator request was issued once plus once per quota failure of
\* the Investigator itself, so never again after Stage 1 has succeeded.
\* Stated over the scans whose latest failure, if any, is an HTTP 429 of the
\* backend.
C4_InvestigatorNotRepeated ==
    lastRaised \in {NoError, ApiError429} =>
        /\ invDecoded >= 1 => fnPc # "inv"
        /\ ScanReturned => invRequests = 1 + invQuotaFails

\* C5: in every attempt the Planner request is issued only after the
\* Investigator response was decoded and the 3000 ms cooldown has elapsed, it
\* carries that attempt's decoded Investigator data, and an attempt whose
\* Investigator call failed issues no Planner request.
C5_PlannerAfterCooldown ==
    /\ planReqAt # -1 =>
          /\ invDoneAt # -1
          /\ planReqAt >= invDoneAt + 3000
          /\ planArg = invData
    /\ fnPc = "plan" => planReqAt # -1
    /\ fnPc = "cooldown" => (planReqAt = -1 /\ planRequests = invDecoded - 1)
    /\ fnPc # "cooldown" => planRequests = invDecoded
    /\ stageFailed = "investigator" => (planReqAt = -1 /\ invDoneAt = -1)

C5_Witness ==
    /\ fnPc = "plan" /\ invocations = 2 /\ planRequests = 2
    /\ planArg = InvExtra /\ planReqAt = invDoneAt + 3000

\* C6: the returned profile holds, for every key, the Planner's value if the
\* Planner returned the key, else the Investigator's; intelligenceSources
\* always holds the sources collected in Stage 1; values are replaced whole;
\* with disjoint field sets nothing of either stage is lost.
C6_ShallowMerge ==
    ScanReturned =>
        /\ DOMAIN returned =
              (DOMAIN invData) \cup (DOMAIN plannedData) \cup {"intelligenceSources"}
        /\ returned["intelligenceSources"] = sources
        /\ \A k \in (DOMAIN returned) \ {"intelligenceSources"} :
              IF k \in DOMAIN plannedData THEN returned[k] = plannedData[k]
              ELSE returned[k] = invData[k]
        /\ ((DOMAIN invData) \cap (DOMAIN plannedData) = {}) =>
              \A k \in (DOMAIN invData) \ {"intelligenceSources"} :
                  returned[k] = invData[k]

C6_Witness ==
    /\ ScanReturned
    /\ invData = InvExtra /\ plannedData = PlanOverlap /\ Len(sources) = 2
    /\ returned["services"] = <<"Install", "Inspect">>

\* C7: a scan whose Investigator or Planner call ends in failure fails with
\* that error and returns no profile; handleWebsiteScan leaves the
\* configuration as it was, merges nothing of a completed Stage 1 and clears
\* the scanning flag.
C7_AllOrNothing ==
    /\ (rrState = "thrown" /\ scanPhase \in {"running", "failed"}) =>
          /\ returned = NoResult
          /\ thrown = lastRaised
          /\ stageFailed \in {"investigator", "planner"}
          /\ config = configBefore
    /\ scanPhase = "failed" =>
          /\ rrState = "thrown"
          /\ config = configBefore
          /\ scanAlert = lastRaised
          /\ ~isScanningUrl
    /\ scanPhase = "merged" => (rrState = "returned" /\ ~isScanningUrl)

C7_Witness ==
    /\ scanPhase = "failed" /\ stageFailed = "planner"
    /\ invData = InvExtra /\ thrown = ApiError429 /\ retries = 0

\* C8: an agent call whose decoded response lacks a field its schema
\* declares required fails; no such response is returned or merged.
C8_RequiredFieldsEnforced ==
    /\ fnPc \in {"cooldown", "plan"} => InvRequired \subseteq DOMAIN invData
    /\ ScanReturned =>
          /\ InvRequired \subseteq DOMAIN invData
          /\ PlanRequired \subseteq DOMAIN plannedData

\* C9: a response that does not decode as JSON fails the call with a parse
\* error that is never retried: no backoff delay and no further request
\* follows it, whatever the response text.
C9_ParseErrorNotRetried ==
    lastRaised.name = "SyntaxError" =>
        /\ rrState \in {"catch", "thrown"}
        /\ (rrState = "thrown" => thrown = lastRaised)

(***************************************************************************)
(* Compact JSON texts over CleanChars: the run "a" stands for a scalar, or *)
(* inside braces or brackets for a member or element list without braces   *)
(* or brackets of its own; an array may also hold one nested value.        *)
(***************************************************************************)
RECURSIVE IsCompactJson(_)
IsCompactJson(t) ==
    \/ t \in {<<"a">>, <<"{", "}">>, <<"{", "a", "}">>, <<"[", "]">>, <<"[", "a", "]">>}
    \/ /\ Len(t) >= 3
       /\ t[1] = "[" /\ t[Len(t)] = "]"
       /\ IsCompactJson(SubSeq(t, 2, Len(t) - 1))

\* C11: cleanJson returns every compact JSON text unchanged, whether it is
\* an object, an array of scalars, an array of objects or a scalar, and so
\* applying cleanJson to its own result changes nothing.
C11_CleanJsonIdentity ==
    (cjDone /\ IsCompactJson(cjText)) =>
        /\ cjOut = cjText
        /\ cleanJson(cjOut) = cjOut

(***************************************************************************)
(* AIWidget: the profile it is given and what it derives from it.  A price *)
(* is the sequence of the runs of its text; a run of digits is a number.   *)
(***************************************************************************)
Gutters(approved) ==
    [id |-> "upsell-1", label |-> "Seamless Gutters",
     description |-> "Upgrade to 6\" seamless aluminum gutters with your new roof.",
     suggestedPrice |-> <<"$", "1", ",", "250">>, isApproved |-> approved]
RidgeVent(approved) ==
    [id |-> "upsell-2", label |-> "Ridge Vent Upgrade",
     description |-> "Enhanced attic ventilation to extend shingle life.",
     suggestedPrice |-> <<"$", "650">>, isApproved |-> approved]
Skylight(approved) ==
    [id |-> "upsell-3", label |-> "Skylight Replacement",
     description |-> "Replace old skylights while the roof is open to prevent future leaks.",
     suggestedPrice |-> <<"$", "1", ",", "800">>, isApproved |-> approved]

WidgetConfigs ==
    {[name |-> <<"Apex Roofing Local">>,
      curatedRecommendations |-> <<Gutters(TRUE), RidgeVent(TRUE), Skylight(TRUE)>>],
     [name |-> <<"Apex Roofing Local">>,
      curatedRecommendations |-> <<Gutters(TRUE), RidgeVent(TRUE), Skylight(FALSE)>>],
     [name |-> <<"Apex Roofing Local">>,
      curatedRecommendations |-> <<Skylight(FALSE)>>],
     [name |-> <<"Apex Roofing Local">>]}

\* config.curatedRecommendations || []
CuratedRecommendations(cfg) ==
    IF "curatedRecommendations" \in DOMAIN cfg THEN cfg.curatedRecommendations ELSE <<>>

IsApproved(u) == u.isApproved

AllUpsells(cfg) == CuratedRecommendations(cfg)

\* (config.curatedRecommendations || []).filter(u => u.isApproved)
ApprovedUpsells(cfg) == SelectSeq(CuratedRecommendations(cfg), IsApproved)

\* The end of the prompt of getEstimate: one line per available upsell, or
\* the fixed sentence when the joined lines are the empty string.
UpsellPrompt(cfg) ==
    LET availableUpsells == ApprovedUpsells(cfg)
        upsellContext ==
            [i \in 1..Len(availableUpsells) |->
                [id |-> availableUpsells[i].id, label |-> availableUpsells[i].label,
                 description |-> availableUpsells[i].description]]
    IN [lines |-> upsellContext,
        fallback |-> IF upsellContext = <<>> THEN "No upsells available." ELSE ""]

Swapped(est) ==
    [k \in DOMAIN est |->
        IF k = "baseMinCost" THEN est.baseMaxCost
        ELSE IF k = "baseMaxCost" THEN est.baseMinCost ELSE est[k]]

getEstimateSortsCosts(resp) ==
    IF resp.kind = "error" THEN Failed(resp.error)
    ELSE LET parsed == JSONparse(cleanJson(resp.text))
             est == parsed.value
         IN IF parsed.ok
            THEN [ok |-> TRUE,
                  data |-> IF {"baseMinCost", "baseMaxCost"} \subseteq DOMAIN est
                              /\ est.baseMinCost[1] > est.baseMaxCost[1]
                           THEN Swapped(est) ELSE est,
                  sources |-> <<>>, error |-> NoError]
            ELSE Failed(parsed.error)

\* What one run of the closure of getEstimate makes of the backend's answer:
\* `return JSON.parse(cleanJson(response.text))`.
getEstimate(resp) ==
    IF resp.kind = "error" THEN Failed(resp.error)
    ELSE LET parsed == JSONparse(cleanJson(resp.text))
         IN IF parsed.ok
            THEN [ok |-> TRUE, data |-> parsed.value, sources |-> <<>>, error |-> NoError]
            ELSE Failed(parsed.error)

SuggestedIdsOrFirstUpsell(est) ==
    IF "suggestedUpsellIds" \in DOMAIN est THEN est.suggestedUpsellIds
    ELSE <<"upsell-1">>

\* est.suggestedUpsellIds || []
SuggestedIds(est) ==
    IF "suggestedUpsellIds" \in DOMAIN est THEN est.suggestedUpsellIds ELSE <<>>

Range(s) == {s[i] : i \in DOMAIN s}

\* relevantUpsells of a non-null result.
relevantUpsells(est, cfg) ==
    LET allApproved == ApprovedUpsells(cfg)
        Suggested(u) == u.id \in Range(SuggestedIds(est))
    IN IF Len(SuggestedIds(est)) > 0 THEN SelectSeq(allApproved, Suggested)
       ELSE allApproved

DigitRuns == {"1", "250", "650", "800"}

\* parseFloat of a run of digits.
parseFloat(run) ==
    CASE run = "1" -> 1 [] run = "250" -> 250 [] run = "650" -> 650 [] run = "800" -> 800

\* u.suggestedPrice.match(/(\d+(\.\d+)?)/): the first run of digits of the
\* price (no price of the model has a fraction), or no match.
PriceAmount(price) ==
    LET at == {i \in DOMAIN price : price[i] \in DigitRuns}
    IN IF at = {} THEN 0
       ELSE parseFloat(price[CHOOSE i \in at : \A j \in at : i <= j])

\* Intl.NumberFormat currency format without fraction digits, of a whole amount.
formatCurrency(amount) == <<"$", amount>>

\* (result.baseMinCost || 0)
CostOr0(est, key) == IF key \in DOMAIN est THEN est[key][1] ELSE 0

\* totalCostDisplay.total of a non-null result.
totalCostDisplay(est, cfg, selected) ==
    LET recs == CuratedRecommendations(cfg)
        extra == SumSeq([i \in 1..Len(recs) |->
                            IF recs[i].id \in Range(selected)
                            THEN PriceAmount(recs[i].suggestedPrice) ELSE 0])
        min == CostOr0(est, "baseMinCost") + extra
        max == CostOr0(est, "baseMaxCost") + extra
    IN IF max > min THEN <<formatCurrency(min), "-", formatCurrency(max)>>
       ELSE <<formatCurrency(min)>>

(***************************************************************************)
(* AIWidget: handlers shared by the text and the voice agent.  A handler   *)
(* of a browser event runs only when no continuation of an earlier handler *)
(* is waiting in the microtask queue.                                      *)
(***************************************************************************)
NoMicrotask == decoding = <<>> /\ leadPhase # "dispatch"

\* stopVoiceSession(): the tracks of the held stream are stopped, the held
\* processor is disconnected, the session promise is dropped, every tracked
\* source is stopped and the set is cleared.
stopVoiceSession ==
    /\ isVoiceActive' = FALSE
    /\ isAiSpeaking' = FALSE
    /\ liveStreams' = liveStreams \ {streamRef}
    /\ connectedProcessors' = connectedProcessors \ {scriptProcessorRef}
    /\ sessionRef' = 0
    /\ stopped' = stopped \cup sourcesRef
    /\ sourcesRef' = {}
    /\ halted' = TRUE
    /\ UNCHANGED <<micPending, streams, streamRef, scriptProcessorRef, sessions,
                   voiceAlert>>
    /\ UNCHANGED <<audioContextRef, ctxBorn, now, nextStartTimeRef, playing,
                   started, decoding, arrivals>>

\* toggleWidget: the round button and the close button of the header.
ToggleWidget ==
    /\ NoMicrotask
    /\ LET newState == IF state = "CLOSED" THEN "IDLE" ELSE "CLOSED"
       IN /\ state' = newState
          /\ IF newState = "CLOSED" THEN stopVoiceSession
             ELSE UNCHANGED <<sessVars, playVars>>
    /\ leadFormStep' = 0
    /\ UNCHANGED <<mode, widgetConfig, estVars, pcmVars, capVars, leadVars>>
    /\ UNCHANGED <<rrVars, obsVars, cjVars, scanVars, appVars>>

\* setMode: the two tabs of the open widget.
SetMode ==
    /\ NoMicrotask
    /\ state # "CLOSED"
    /\ mode' = IF mode = "text" THEN "voice" ELSE "text"
    /\ UNCHANGED <<state, leadFormStep, widgetConfig, estVars, sessVars, playVars,
                   pcmVars, capVars, leadVars>>
    /\ UNCHANGED <<rrVars, obsVars, cjVars, scanVars, appVars>>

(***************************************************************************)
(* AIWidget: the text agent.  One estimate is in flight at a time.         *)
(***************************************************************************)
Tasks ==
    {[description |-> "", zipCode |-> ""],
     [description |-> "Estimate for 2000 sq ft home?", zipCode |-> ""],
     [description |-> "Estimate for 2000 sq ft home?", zipCode |-> "90210"]}

LoadingMessages == <<"Calculating scope...", "Finding best price...", "Finalizing quote...">>

FormShown == state = "IDLE" /\ mode = "text"

\* onChange of the fields of the estimate form.
SetTask ==
    /\ NoMicrotask
    /\ FormShown
    /\ \E t \in Tasks : t # task /\ task' = t
    /\ UNCHANGED <<result, selectedUpsellIds, loadingMessage, interval, estAlert,
                   estPhase, estRequests, estResponse>>
    /\ UNCHANGED <<widgetVars, sessVars, playVars, pcmVars, capVars, leadVars>>
    /\ UNCHANGED <<rrVars, obsVars, cjVars, scanVars, appVars>>

\* handleEstimate up to `await getEstimate(...)`: getEstimate enters
\* retryRequest, whose closure builds the prompt and sends the request.
HandleEstimate ==
    /\ NoMicrotask
    /\ FormShown
    /\ estPhase # "running"
    /\ task.description # "" /\ task.zipCode # ""
    /\ state' = "LOADING"
    /\ interval' = 0
    /\ estPhase' = "running"
    /\ EnterRetryRequest(DefaultRetries, DefaultInitialDelay)
    /\ estRequests' = <<UpsellPrompt(widgetConfig)>>
    /\ estResponse' = NoResponse
    /\ UNCHANGED <<task, result, selectedUpsellIds, loadingMessage, estAlert>>
    /\ UNCHANGED <<mode, leadFormStep, widgetConfig, sessVars, playVars, pcmVars, capVars, leadVars>>
    /\ UNCHANGED <<cjVars, scanVars, appVars>>

\* The callback of setInterval(..., 1800).
LoadingTick ==
    /\ NoMicrotask
    /\ interval # -1
    /\ interval' = (interval + 1) % Len(LoadingMessages)
    /\ loadingMessage' = LoadingMessages[interval' + 1]
    /\ UNCHANGED <<task, result, selectedUpsellIds, estAlert, estPhase, estRequests,
                   estResponse>>
    /\ UNCHANGED <<widgetVars, sessVars, playVars, pcmVars, capVars, leadVars>>
    /\ UNCHANGED <<rrVars, obsVars, cjVars, scanVars, appVars>>

\* The estimation backend answers the request of the current attempt.
EstimateResponds ==
    /\ estPhase = "running"
    /\ rrState = "pending"
    /\ \E resp \in EstResponses :
        LET out == getEstimate(resp)
        IN /\ estResponse' = resp
           /\ IF out.ok THEN FnResolve(out.data) ELSE FnReject(out.error)
    /\ UNCHANGED <<task, result, selectedUpsellIds, loadingMessage, interval,
                   estAlert, estPhase, estRequests>>
    /\ UNCHANGED <<widgetVars, sessVars, playVars, pcmVars, capVars, leadVars>>
    /\ UNCHANGED <<cjVars, scanVars, appVars>>

EstimateCatch ==
    /\ estPhase = "running"
    /\ RetryCatch
    /\ UNCHANGED <<cjVars, scanVars, appVars, uiVars>>

\* The delay elapses and the closure runs again: a new prompt, a new request.
EstimateBackoff ==
    /\ estPhase = "running"
    /\ Backoff
    /\ estRequests' = Append(estRequests, UpsellPrompt(widgetConfig))
    /\ UNCHANGED <<task, result, selectedUpsellIds, loadingMessage, interval,
                   estAlert, estPhase, estResponse>>
    /\ UNCHANGED <<widgetVars, sessVars, playVars, pcmVars, capVars, leadVars>>
    /\ UNCHANGED <<cjVars, scanVars, appVars>>

EstimateSettledLeavesTimer ==
    /\ estPhase = "running"
    /\ RetrySettled
    /\ IF rrState = "returned"
       THEN /\ result' = <<returned>>
            /\ selectedUpsellIds' = SuggestedIds(returned)
            /\ state' = "RESULT"
            /\ estPhase' = "shown"
            /\ interval' = -1
            /\ UNCHANGED estAlert
       ELSE /\ estAlert' = "Estimation failed. Please check your connection."
            /\ state' = "IDLE"
            /\ estPhase' = "failed"
            /\ UNCHANGED <<result, selectedUpsellIds, interval>>
    /\ UNCHANGED <<task, loadingMessage, estRequests, estResponse>>
    /\ UNCHANGED <<mode, leadFormStep, widgetConfig, sessVars, playVars, pcmVars, capVars, leadVars>>
    /\ UNCHANGED <<rrVars, obsVars, cjVars, scanVars, appVars>>

\* handleEstimate after the await: the try, catch and finally blocks.
EstimateSettled ==
    /\ estPhase = "running"
    /\ RetrySettled
    /\ IF rrState = "returned"
       THEN /\ result' = <<returned>>
            /\ selectedUpsellIds' = SuggestedIds(returned)
            /\ state' = "RESULT"
            /\ estPhase' = "shown"
            /\ UNCHANGED estAlert
       ELSE /\ estAlert' = "Estimation failed. Please check your connection."
            /\ state' = "IDLE"
            /\ estPhase' = "failed"
            /\ UNCHANGED <<result, selectedUpsellIds>>
    /\ interval' = -1
    /\ UNCHANGED <<task, loadingMessage, estRequests, estResponse>>
    /\ UNCHANGED <<mode, leadFormStep, widgetConfig, sessVars, playVars, pcmVars, capVars, leadVars>>
    /\ UNCHANGED <<rrVars, obsVars, cjVars, scanVars, appVars>>

ResultShown == state = "RESULT" /\ mode = "text" /\ result # <<>>

\* onClick of an offered upsell.
ToggleUpsell ==
    /\ NoMicrotask
    /\ ResultShown
    /\ \E i \in DOMAIN relevantUpsells(result[1], widgetConfig) :
        LET id == relevantUpsells(result[1], widgetConfig)[i].id
            Other(x) == x # id
        IN selectedUpsellIds' =
              IF id \in Range(selectedUpsellIds)
              THEN SelectSeq(selectedUpsellIds, Other)
              ELSE Append(selectedUpsellIds, id)
    /\ UNCHANGED <<task, result, loadingMessage, interval, estAlert, estPhase,
                   estRequests, estResponse>>
    /\ UNCHANGED <<widgetVars, sessVars, playVars, pcmVars, capVars, leadVars>>
    /\ UNCHANGED <<rrVars, obsVars, cjVars, scanVars, appVars>>

\* The two buttons under the result.
LeaveResult ==
    /\ NoMicrotask
    /\ ResultShown
    /\ state' \in {"IDLE", "LEAD_FORM"}
    /\ UNCHANGED <<mode, leadFormStep, widgetConfig, estVars, sessVars, playVars, pcmVars, capVars, leadVars>>
    /\ UNCHANGED <<rrVars, obsVars, cjVars, scanVars, appVars>>

InitEstimate ==
    /\ RetryIdle
    /\ argRetries = DefaultRetries /\ retries = DefaultRetries
    /\ argDelay = DefaultInitialDelay /\ initialDelay = DefaultInitialDelay
    /\ CleanIdle /\ ScanIdle /\ AppIdle
    /\ state = "CLOSED" /\ mode = "text" /\ leadFormStep = 0
    /\ widgetConfig \in WidgetConfigs
    /\ EstimateIdle /\ SessionIdle /\ PlaybackIdle /\ PcmIdle /\ CaptureIdle
    /\ LeadIdle

NextEstimate ==
    \/ ToggleWidget
    \/ SetMode
    \/ SetTask
    \/ HandleEstimate
    \/ LoadingTick
    \/ EstimateResponds
    \/ EstimateCatch
    \/ EstimateBackoff
    \/ EstimateSettled
    \/ ToggleUpsell
    \/ LeaveResult

SpecEstimate == InitEstimate /\ [][NextEstimate]_vars

(***************************************************************************)
(* Properties of getEstimate and of the result shown by the widget.        *)
(***************************************************************************)
ApprovedIds(cfg) ==
    {CuratedRecommendations(cfg)[j].id :
        j \in {k \in DOMAIN CuratedRecommendations(cfg) :
                  CuratedRecommendations(cfg)[k].isApproved}}

UnapprovedIds(cfg) ==
    {CuratedRecommendations(cfg)[j].id :
        j \in {k \in DOMAIN CuratedRecommendations(cfg) :
                  ~CuratedRecommendations(cfg)[k].isApproved}}

\* C12: the prompt of every request of getEstimate, first attempt and
\* retries alike, lists exactly the recommendations of the profile with
\* isApproved = true, each with its id, label and description, lists none
\* with isApproved = false, and says that no upsells are available when the
\* profile has none approved or has no list.
C12_RequestExposesApproved ==
    /\ estPhase = "running" => Len(estRequests) = invocations
    /\ \A i \in DOMAIN estRequests :
        LET lines == estRequests[i].lines
            recs == CuratedRecommendations(widgetConfig)
        IN /\ \A k \in DOMAIN lines : \E j \in DOMAIN recs :
                /\ recs[j].isApproved
                /\ lines[k] = [id |-> recs[j].id, label |-> recs[j].label,
                               description |-> recs[j].description]
           /\ {lines[k].id : k \in DOMAIN lines} = ApprovedIds(widgetConfig)
           /\ {lines[k].id : k \in DOMAIN lines} \cap UnapprovedIds(widgetConfig) = {}
           /\ Len(lines) = Cardinality(ApprovedIds(widgetConfig))
           /\ (estRequests[i].fallback = "No upsells available.")
                <=> (ApprovedIds(widgetConfig) = {})
           /\ (estRequests[i].fallback = "") <=> (ApprovedIds(widgetConfig) # {})

C12_Witness ==
    /\ Len(estRequests) = 3
    /\ UnapprovedIds(widgetConfig) = {"upsell-3"}
    /\ {estRequests[3].lines[k].id : k \in DOMAIN estRequests[3].lines}
          = {"upsell-1", "upsell-2"}

GetEstimateReturned == rrState = "returned" /\ estPhase = "running"

\* C13: no id in suggestedUpsellIds of the estimate getEstimate returns is
\* other than the id of an approved recommendation of the profile.
C13_SuggestedIdsApproved ==
    GetEstimateReturned =>
        Range(SuggestedIds(returned)) \subseteq ApprovedIds(widgetConfig)

\* The object the backend's answer encodes.
Encoded(resp) ==
    Members(CHOOSE tok \in EstTokens : Includes(resp.text, tok))

\* C14: getEstimate returns the estimate the backend sent as it is:
\* baseMinCost and baseMaxCost are the backend's values, also when the
\* minimum exceeds the maximum, and every other field is the backend's too.
C14_EstimateAsDecoded ==
    GetEstimateReturned =>
        /\ estResponse.kind = "text"
        /\ \E tok \in EstTokens : Includes(estResponse.text, tok)
        /\ returned = Encoded(estResponse)
        /\ returned.baseMinCost = Encoded(estResponse).baseMinCost
        /\ returned.baseMaxCost = Encoded(estResponse).baseMaxCost

C14_Witness ==
    /\ GetEstimateReturned
    /\ estResponse.text = ObjectText("estInverted")
    /\ returned.baseMinCost = <<8500>> /\ returned.baseMaxCost = <<6000>>

NoSuggestion(est) ==
    "suggestedUpsellIds" \notin DOMAIN est \/ est.suggestedUpsellIds = <<>>

BaseDisplay(est) ==
    IF est.baseMaxCost[1] > est.baseMinCost[1]
    THEN <<formatCurrency(est.baseMinCost[1]), "-", formatCurrency(est.baseMaxCost[1])>>
    ELSE <<formatCurrency(est.baseMinCost[1])>>

\* C15: an answer without suggestedUpsellIds, or with an empty list, is
\* not a failure: getEstimate returns it, the widget shows the result with
\* no upsell selected, and the total shown is the base estimate.
C15_NoSuggestionIsNoError ==
    /\ [][(estResponse' # estResponse /\ estResponse'.kind = "text"
            /\ \E tok \in {"estNoIds", "estEmptyIds"} :
                  estResponse'.text = ObjectText(tok))
          => (rrState' = "returned" /\ NoSuggestion(returned'))]_vars
    /\ [][(estPhase = "running" /\ rrState = "returned" /\ NoSuggestion(returned)
            /\ estPhase' # "running")
          => /\ state' = "RESULT"
             /\ result' = <<returned>>
             /\ selectedUpsellIds' = <<>>
             /\ estAlert' = estAlert
             /\ totalCostDisplay(result'[1], widgetConfig', selectedUpsellIds')
                   = BaseDisplay(returned)]_vars

C15_Witness ==
    /\ estPhase = "shown" /\ state = "RESULT"
    /\ result = <<EstNoIds>>
    /\ selectedUpsellIds = <<>>
    /\ Len(CuratedRecommendations(widgetConfig)) = 3
    /\ totalCostDisplay(result[1], widgetConfig, selectedUpsellIds)
          = <<formatCurrency(6000), "-", formatCurrency(8500)>>

(***************************************************************************)
(* One sample through the capture encoding of onaudioprocess and the       *)
(* playback decoding of decode and decodeAudioData, as a frame of one      *)
(* sample.  A captured sample is a multiple of 1/65536 in [-1, 1].         *)
(***************************************************************************)
\* Math.trunc of num / den, den > 0.
Trunc(num, den) == IF num >= 0 THEN num \div den ELSE -((-num) \div den)

\* The store `int16[i] = x` of an Int16Array: the integer part of x modulo
\* 2^16, read back as a signed 16-bit integer.
ToInt16(num, den) ==
    LET bits == Trunc(num, den) % (2 * Int16Scale)
    IN IF bits >= Int16Scale THEN bits - 2 * Int16Scale ELSE bits

\* new Uint8Array(int16.buffer): the two bytes of the element, low byte first.
BytesOfInt16(v) ==
    LET bits == v % (2 * Int16Scale)
    IN <<bits % 256, bits \div 256>>

\* btoa of two bytes: three characters of the alphabet and the padding (64).
btoa(bytes) ==
    <<bytes[1] \div 4, (bytes[1] % 4) * 16 + bytes[2] \div 16, (bytes[2] % 16) * 4, 64>>

\* encode(bytes)
encode(bytes) == btoa(bytes)

\* decode(base64): atob of three characters and the padding, as two bytes.
decode(base64) ==
    <<base64[1] * 4 + base64[2] \div 16, (base64[2] % 16) * 16 + base64[3] \div 4>>

\* new Int16Array(data.buffer)[0]
Int16OfBytes(bytes) ==
    LET bits == bytes[1] + 256 * bytes[2]
    IN IF bits >= Int16Scale THEN bits - 2 * Int16Scale ELSE bits

Samples == (-2 * Int16Scale)..(2 * Int16Scale)

InitPcm ==
    /\ RetryIdle /\ CleanIdle /\ ScanIdle /\ AppIdle
    /\ argRetries = 0 /\ argDelay = 0 /\ retries = 0 /\ initialDelay = 0
    /\ WidgetIdle /\ EstimateIdle /\ SessionIdle /\ PlaybackIdle /\ CaptureIdle
    /\ LeadIdle
    /\ pcmPc = "input"
    /\ pcmSample \in Samples
    /\ pcmInt16 = 0 /\ pcmBase64 = <<>> /\ pcmOut = 0

\* onaudioprocess for one sample: int16[i] = inputData[i] * 32768, then
\* encode(new Uint8Array(int16.buffer)).
CaptureSample ==
    /\ pcmPc = "input"
    /\ pcmInt16' = ToInt16(pcmSample, 2)   \* (pcmSample / 65536) * 32768
    /\ pcmBase64' = encode(BytesOfInt16(pcmInt16'))
    /\ pcmPc' = "sent"
    /\ UNCHANGED <<pcmSample, pcmOut>>
    /\ UNCHANGED <<rrVars, obsVars, cjVars, scanVars, appVars>>
    /\ UNCHANGED <<widgetVars, estVars, sessVars, playVars, capVars, leadVars>>

\* decodeAudioData(decode(base64Audio), ...) for the same frame:
\* channelData[i] = dataInt16[i] / 32768.0.
PlaySample ==
    /\ pcmPc = "sent"
    /\ pcmOut' = Int16OfBytes(decode(pcmBase64))
    /\ pcmPc' = "played"
    /\ UNCHANGED <<pcmSample, pcmInt16, pcmBase64>>
    /\ UNCHANGED <<rrVars, obsVars, cjVars, scanVars, appVars>>
    /\ UNCHANGED <<widgetVars, estVars, sessVars, playVars, capVars, leadVars>>

NextPcm == CaptureSample \/ PlaySample

SpecPcm == InitPcm /\ [][NextPcm]_vars

\* C16: capture encoding followed by playback decoding gives back every
\* sample of [-1, 1] to within 1/32768: the 16-bit store holds the integer
\* part of the scaled sample without wrapping, and the sign is kept.
C16_PcmRoundTrip ==
    pcmPc = "played" =>
        /\ pcmInt16 = Trunc(pcmSample, 2)
        /\ 2 * pcmOut - pcmSample \in -2..2
        /\ (pcmSample > 0 => pcmOut >= 0)
        /\ (pcmSample < 0 => pcmOut <= 0)

(***************************************************************************)
(* AIWidget: the voice agent.  Time is counted in sample periods of the    *)
(* output rate; a frame of b bytes holds b / 2 samples and lasts as long.  *)
(* A session that was requested stays connected: nothing closes it.  The   *)
(* user has chosen the voice tab before and stays on it.                   *)
(***************************************************************************)
\* Byte lengths of the audio data of an inbound message.
FrameBytes == {2, 3}

\* ctx.currentTime of an output context.
currentTime(ctx) == now - ctxBorn[ctx]

Max(a, b) == IF a >= b THEN a ELSE b

\* The voice sessions of one behaviour.
SessionIds == {1, 2}

VoiceTabShown == state # "CLOSED" /\ mode = "voice"

\* startVoiceSession up to `await navigator.mediaDevices.getUserMedia(...)`;
\* the button is rendered while !isVoiceActive.
StartVoiceSession ==
    /\ NoMicrotask
    /\ VoiceTabShown
    /\ ~isVoiceActive
    /\ Len(sessions) + micPending < Cardinality(SessionIds)
    /\ micPending' = micPending + 1
    /\ halted' = FALSE
    /\ UNCHANGED <<isVoiceActive, streams, streamRef, liveStreams, scriptProcessorRef,
                   connectedProcessors, sessionRef, sessions, voiceAlert>>
    /\ UNCHANGED <<widgetVars, estVars, playVars, pcmVars, capVars, leadVars>>
    /\ UNCHANGED <<rrVars, obsVars, cjVars, scanVars, appVars>>

\* getUserMedia resolves: the rest of the try block of startVoiceSession.
MicGranted ==
    /\ NoMicrotask
    /\ micPending > 0
    /\ micPending' = micPending - 1
    /\ streams' = streams + 1
    /\ liveStreams' = liveStreams \cup {streams'}
    /\ isVoiceActive' = TRUE
    /\ ctxBorn' = Append(ctxBorn, now)
    /\ audioContextRef' = Len(ctxBorn')
    /\ streamRef' = streams'
    /\ sessions' = Append(sessions, "connecting")
    /\ sessionRef' = Len(sessions')
    /\ UNCHANGED <<scriptProcessorRef, connectedProcessors, voiceAlert, halted>>
    /\ UNCHANGED <<isAiSpeaking, now, nextStartTimeRef, sourcesRef, playing, stopped,
                   started, decoding, arrivals>>
    /\ UNCHANGED <<widgetVars, estVars, pcmVars, capVars, leadVars>>
    /\ UNCHANGED <<rrVars, obsVars, cjVars, scanVars, appVars>>

MicDeniedAfterActivation ==
    /\ NoMicrotask
    /\ micPending > 0
    /\ micPending' = micPending - 1
    /\ isVoiceActive' = TRUE
    /\ voiceAlert' = "Microphone access is required for voice mode."
    /\ UNCHANGED <<streams, streamRef, liveStreams, scriptProcessorRef,
                   connectedProcessors, sessionRef, sessions, halted>>
    /\ UNCHANGED <<widgetVars, estVars, playVars, pcmVars, capVars, leadVars>>
    /\ UNCHANGED <<rrVars, obsVars, cjVars, scanVars, appVars>>

\* getUserMedia rejects: the catch clause of startVoiceSession.
MicDenied ==
    /\ NoMicrotask
    /\ micPending > 0
    /\ micPending' = micPending - 1
    /\ voiceAlert' = "Microphone access is required for voice mode."
    /\ UNCHANGED <<isVoiceActive, streams, streamRef, liveStreams, scriptProcessorRef,
                   connectedProcessors, sessionRef, sessions, halted>>
    /\ UNCHANGED <<widgetVars, estVars, playVars, pcmVars, capVars, leadVars>>
    /\ UNCHANGED <<rrVars, obsVars, cjVars, scanVars, appVars>>

\* callbacks.onopen of a session: the capture graph is created and connected.
OnOpen ==
    /\ NoMicrotask
    /\ \E k \in DOMAIN sessions :
        /\ sessions[k] = "connecting"
        /\ sessions' = [sessions EXCEPT ![k] = "open"]
        /\ scriptProcessorRef' = k
        /\ connectedProcessors' = connectedProcessors \cup {k}
    /\ UNCHANGED <<isVoiceActive, micPending, streams, streamRef, liveStreams,
                   sessionRef, voiceAlert, halted>>
    /\ UNCHANGED <<widgetVars, estVars, playVars, pcmVars, capVars, leadVars>>
    /\ UNCHANGED <<rrVars, obsVars, cjVars, scanVars, appVars>>

\* callbacks.onmessage up to `await decodeAudioData(...)`, for a message of
\* an open session that carries audio data.  It may be called while earlier
\* calls are still suspended.
OnMessage ==
    /\ arrivals < MaxFrames
    /\ \E k \in DOMAIN sessions, b \in FrameBytes :
        /\ sessions[k] = "open"
        /\ decoding' = Append(decoding,
                          [frame |-> arrivals + 1, session |-> k, bytes |-> b,
                           ctx |-> audioContextRef, behind |-> Len(decoding)])
    /\ arrivals' = arrivals + 1
    /\ isAiSpeaking' = TRUE
    /\ nextStartTimeRef' = Max(nextStartTimeRef, currentTime(audioContextRef))
    /\ UNCHANGED <<audioContextRef, ctxBorn, now, sourcesRef, playing, stopped, started>>
    /\ UNCHANGED <<widgetVars, estVars, sessVars, pcmVars, capVars, leadVars>>
    /\ UNCHANGED <<rrVars, obsVars, cjVars, scanVars, appVars>>

\* The source a suspended call creates and starts when it resumes.
SourceOf(h) ==
    [frame |-> h.frame, session |-> h.session, ctx |-> h.ctx, behind |-> h.behind,
     at |-> nextStartTimeRef, duration |-> h.bytes \div 2,
     clock |-> currentTime(h.ctx), halted |-> halted]

\* new Int16Array(data.buffer) throws a RangeError on an odd byte length.
DecodeThrows(h) == h.bytes % 2 = 1

OnMessageResumeKeepsCursor ==
    /\ decoding # <<>>
    /\ decoding' = Tail(decoding)
    /\ IF DecodeThrows(Head(decoding))
       THEN UNCHANGED <<started, nextStartTimeRef, sourcesRef, playing>>
       ELSE /\ started' = Append(started, SourceOf(Head(decoding)))
            /\ nextStartTimeRef' = nextStartTimeRef
            /\ sourcesRef' = sourcesRef \cup {Len(started')}
            /\ playing' = playing \cup {Len(started')}
    /\ UNCHANGED <<isAiSpeaking, audioContextRef, ctxBorn, now, stopped, arrivals>>
    /\ UNCHANGED <<widgetVars, estVars, sessVars, pcmVars, capVars, leadVars>>
    /\ UNCHANGED <<rrVars, obsVars, cjVars, scanVars, appVars>>

OnMessageResumeAnyOrder ==
    /\ decoding # <<>>
    /\ \E i \in DOMAIN decoding :
        /\ decoding' = SubSeq(decoding, 1, i - 1) \o SubSeq(decoding, i + 1, Len(decoding))
        /\ IF DecodeThrows(decoding[i])
           THEN UNCHANGED <<started, nextStartTimeRef, sourcesRef, playing>>
           ELSE /\ started' = Append(started, SourceOf(decoding[i]))
                /\ nextStartTimeRef' = nextStartTimeRef + (decoding[i].bytes \div 2)
                /\ sourcesRef' = sourcesRef \cup {Len(started')}
                /\ playing' = playing \cup {Len(started')}
    /\ UNCHANGED <<isAiSpeaking, audioContextRef, ctxBorn, now, stopped, arrivals>>
    /\ UNCHANGED <<widgetVars, estVars, sessVars, pcmVars, capVars, leadVars>>
    /\ UNCHANGED <<rrVars, obsVars, cjVars, scanVars, appVars>>

\* callbacks.onmessage after the await.  decodeAudioData does no asynchronous
\* work, so the suspended calls resume in the order in which they suspended.
OnMessageResume ==
    /\ decoding # <<>>
    /\ decoding' = Tail(decoding)
    /\ IF DecodeThrows(Head(decoding))
       THEN UNCHANGED <<started, nextStartTimeRef, sourcesRef, playing>>
       ELSE /\ started' = Append(started, SourceOf(Head(decoding)))
            /\ nextStartTimeRef' = nextStartTimeRef + (Head(decoding).bytes \div 2)
            /\ sourcesRef' = sourcesRef \cup {Len(started')}
            /\ playing' = playing \cup {Len(started')}
    /\ UNCHANGED <<isAiSpeaking, audioContextRef, ctxBorn, now, stopped, arrivals>>
    /\ UNCHANGED <<widgetVars, estVars, sessVars, pcmVars, capVars, leadVars>>
    /\ UNCHANGED <<rrVars, obsVars, cjVars, scanVars, appVars>>

\* A source has played to its end, or was stopped.
Finished(id) ==
    \/ id \in stopped
    \/ currentTime(started[id].ctx)
          >= Max(started[id].at, started[id].clock) + started[id].duration

\* The listener of a source's `ended` event.
OnEnded ==
    /\ NoMicrotask
    /\ \E id \in playing :
        /\ Finished(id)
        /\ playing' = playing \ {id}
        /\ stopped' = stopped \ {id}
        /\ sourcesRef' = sourcesRef \ {id}
    /\ isAiSpeaking' = IF sourcesRef' = {} THEN FALSE ELSE isAiSpeaking
    /\ UNCHANGED <<audioContextRef, ctxBorn, now, nextStartTimeRef, started, decoding,
                   arrivals>>
    /\ UNCHANGED <<widgetVars, estVars, sessVars, pcmVars, capVars, leadVars>>
    /\ UNCHANGED <<rrVars, obsVars, cjVars, scanVars, appVars>>

\* One sample period passes.  The audio clock is advanced by the rendering
\* thread, so it may also move while a call of onmessage is decoding.
Tick ==
    /\ now < MaxClock
    /\ now' = now + 1
    /\ UNCHANGED <<isAiSpeaking, audioContextRef, ctxBorn, nextStartTimeRef, sourcesRef,
                   playing, stopped, started, decoding, arrivals>>
    /\ UNCHANGED <<widgetVars, estVars, sessVars, pcmVars, capVars, leadVars>>
    /\ UNCHANGED <<rrVars, obsVars, cjVars, scanVars, appVars>>

InitVoice ==
    /\ RetryIdle /\ CleanIdle /\ ScanIdle /\ AppIdle
    /\ argRetries = 0 /\ argDelay = 0 /\ retries = 0 /\ initialDelay = 0
    /\ state = "CLOSED" /\ mode = "voice" /\ leadFormStep = 0
    /\ widgetConfig = [name |-> <<"Apex Roofing Local">>]
    /\ EstimateIdle /\ SessionIdle /\ PlaybackIdle /\ PcmIdle /\ CaptureIdle
    /\ LeadIdle

NextVoice ==
    \/ ToggleWidget
    \/ StartVoiceSession
    \/ MicGranted
    \/ MicDenied
    \/ OnOpen
    \/ OnMessage
    \/ OnMessageResume
    \/ OnEnded
    \/ Tick

SpecVoice == InitVoice /\ [][NextVoice]_vars

(***************************************************************************)
(* Properties of the playback of inbound audio.                            *)
(***************************************************************************)
SameSession(i, j) == started[i].session = started[j].session

\* C17: playback never overlaps: of two sources of one session, the one
\* started later starts no earlier than the start of the other plus the
\* other's duration, whatever the arrival times of the messages and however
\* the suspended calls of onmessage interleave with later arrivals.
C17_NoOverlap ==
    \A i, j \in DOMAIN started :
        (i < j /\ SameSession(i, j))
            => started[j].at >= started[i].at + started[i].duration

C17_Witness ==
    /\ Len(started) = 2
    /\ SameSession(1, 2)
    /\ started[2].behind = 1
    /\ started[2].at = started[1].at + started[1].duration

\* C18: the frames of a session are scheduled in the order of their arrival:
\* a frame that arrived earlier gets its start time first, and an earlier
\* one, also when the calls handling them are suspended at the same time.
C18_ArrivalOrder ==
    /\ \A i, j \in DOMAIN started :
        (SameSession(i, j) /\ started[i].frame < started[j].frame)
            => (i < j /\ started[i].at < started[j].at)
    /\ \A j \in DOMAIN started, k \in DOMAIN decoding :
        decoding[k].session = started[j].session
            => started[j].frame < decoding[k].frame

C18_Witness ==
    /\ decoding = <<>>
    /\ \E i, j \in DOMAIN started :
        /\ started[i].frame = 1 /\ started[j].frame = 2
        /\ SameSession(i, j)
        /\ started[j].behind = 1
        /\ started[i].at < started[j].at

\* C19: isAiSpeaking is true exactly when the set of tracked sources is not
\* empty, also while a frame is being decoded and after a stop.
C19_SpeakingIffSources == isAiSpeaking <=> (sourcesRef # {})

\* C20: from stopVoiceSession until the next startVoiceSession begins, no
\* source is started or tracked and isAiSpeaking stays false.
C20_StopIsFinal ==
    halted =>
        /\ ~isAiSpeaking
        /\ sourcesRef = {}
        /\ \A i \in DOMAIN started : ~started[i].halted

(***************************************************************************)
(* AIWidget: the capture of outbound audio and the fate of the connection. *)
(* A script processor is identified with the session whose onopen made it; *)
(* it raises audioprocess events while it is connected to the destination. *)
(* The promise of ai.live.connect resolves once onopen has been called;    *)
(* how soon is the library's affair, so an audioprocess event may be       *)
(* handled before it.                                                      *)
(***************************************************************************)
\* The audioprocess events of one behaviour.
MaxCaptured == 2

\* The states of a session in which its onopen has been called.
Confirmed == {"open", "dropped"}

\* session.sendRealtimeInput({ media: pcmBlob }) for a captured frame.
Transmit(f) ==
    [from |-> f.from, session |-> f.session, seq |-> f.seq, waited |-> f.waited,
     halted |-> halted,
     opened |-> f.session \in DOMAIN sessions /\ sessions[f.session] \in Confirmed]

RECURSIVE TransmitAll(_)
TransmitAll(fs) ==
    IF fs = <<>> THEN <<>> ELSE <<Transmit(Head(fs))>> \o TransmitAll(Tail(fs))

RECURSIVE Reverse(_)
Reverse(s) == IF s = <<>> THEN <<>> ELSE Append(Reverse(Tail(s)), Head(s))

\* The frames of `fs` that wait for the promise of session k, and the others.
WaitingFor(k, fs) == SelectSeq(fs, LAMBDA f : f.session = k)
WaitingElsewhere(k, fs) == SelectSeq(fs, LAMBDA f : f.session # k)

OnAudioProcessViaSessionRef ==
    /\ NoMicrotask
    /\ captured < MaxCaptured
    /\ captured' = captured + 1
    /\ \E k \in connectedProcessors :
        LET f == [from |-> k, session |-> sessionRef, seq |-> captured + 1,
                  waited |-> k \notin resolved]
        IN  IF k \in resolved
            THEN sent' = Append(sent, Transmit(f)) /\ UNCHANGED waiting
            ELSE waiting' = Append(waiting, f) /\ UNCHANGED sent
    /\ UNCHANGED resolved
    /\ UNCHANGED <<widgetVars, estVars, sessVars, playVars, pcmVars, leadVars>>
    /\ UNCHANGED <<rrVars, obsVars, cjVars, scanVars, appVars>>

\* scriptProcessor.onaudioprocess: the frame is encoded and handed to
\* sessionPromise.then(...).  The callback runs at once, as a microtask,
\* when the promise has resolved, and waits for it otherwise.
OnAudioProcess ==
    /\ NoMicrotask
    /\ captured < MaxCaptured
    /\ captured' = captured + 1
    /\ \E k \in connectedProcessors :
        LET f == [from |-> k, session |-> k, seq |-> captured + 1,
                  waited |-> k \notin resolved]
        IN  IF k \in resolved
            THEN sent' = Append(sent, Transmit(f)) /\ UNCHANGED waiting
            ELSE waiting' = Append(waiting, f) /\ UNCHANGED sent
    /\ UNCHANGED resolved
    /\ UNCHANGED <<widgetVars, estVars, sessVars, playVars, pcmVars, leadVars>>
    /\ UNCHANGED <<rrVars, obsVars, cjVars, scanVars, appVars>>

SessionResolvesLastFirst ==
    /\ NoMicrotask
    /\ \E k \in DOMAIN sessions :
        /\ sessions[k] = "open"
        /\ k \notin resolved
        /\ resolved' = resolved \cup {k}
        /\ sent' = sent \o Reverse(TransmitAll(WaitingFor(k, waiting)))
        /\ waiting' = WaitingElsewhere(k, waiting)
    /\ UNCHANGED captured
    /\ UNCHANGED <<widgetVars, estVars, sessVars, playVars, pcmVars, leadVars>>
    /\ UNCHANGED <<rrVars, obsVars, cjVars, scanVars, appVars>>

\* sessionPromise resolves: the callbacks registered with then() run in the
\* order of their registration.
SessionResolves ==
    /\ NoMicrotask
    /\ \E k \in DOMAIN sessions :
        /\ sessions[k] = "open"
        /\ k \notin resolved
        /\ resolved' = resolved \cup {k}
        /\ sent' = sent \o TransmitAll(WaitingFor(k, waiting))
        /\ waiting' = WaitingElsewhere(k, waiting)
    /\ UNCHANGED captured
    /\ UNCHANGED <<widgetVars, estVars, sessVars, playVars, pcmVars, leadVars>>
    /\ UNCHANGED <<rrVars, obsVars, cjVars, scanVars, appVars>>

\* The connection is not established: sessionPromise rejects.  No handler
\* is attached to it and `callbacks` has no onerror.
ConnectFails ==
    /\ NoMicrotask
    /\ \E k \in DOMAIN sessions :
        /\ sessions[k] = "connecting"
        /\ sessions' = [sessions EXCEPT ![k] = "failed"]
    /\ UNCHANGED <<isVoiceActive, micPending, streams, streamRef, liveStreams,
                   scriptProcessorRef, connectedProcessors, sessionRef, voiceAlert,
                   halted>>
    /\ UNCHANGED <<widgetVars, estVars, playVars, pcmVars, capVars, leadVars>>
    /\ UNCHANGED <<rrVars, obsVars, cjVars, scanVars, appVars>>

\* An open connection is lost: `callbacks` has no onclose and no onerror.
ConnectionDrops ==
    /\ NoMicrotask
    /\ \E k \in DOMAIN sessions :
        /\ sessions[k] = "open"
        /\ sessions' = [sessions EXCEPT ![k] = "dropped"]
    /\ UNCHANGED <<isVoiceActive, micPending, streams, streamRef, liveStreams,
                   scriptProcessorRef, connectedProcessors, sessionRef, voiceAlert,
                   halted>>
    /\ UNCHANGED <<widgetVars, estVars, playVars, pcmVars, capVars, leadVars>>
    /\ UNCHANGED <<rrVars, obsVars, cjVars, scanVars, appVars>>

NextCapture ==
    \/ ToggleWidget
    \/ StartVoiceSession
    \/ MicGranted
    \/ MicDenied
    \/ OnOpen
    \/ SessionResolves
    \/ OnAudioProcess
    \/ ConnectFails
    \/ ConnectionDrops

SpecCapture == InitVoice /\ [][NextCapture]_vars

(***************************************************************************)
(* Properties of the life cycle of a voice session.                        *)
(***************************************************************************)
\* The source was scheduled on the output context made by the
\* startVoiceSession that opened its session.
OnOwnClock(i) == started[i].ctx = started[i].session

FirstOfSession(i) == \A j \in DOMAIN started : j < i => ~SameSession(i, j)

\* C21: the cursor is reset when a session starts: the first source of a
\* session is scheduled at the time its session's audio clock shows at that
\* moment, not at a cursor value left by an earlier session.
C21_CursorResetAtStart ==
    \A i \in DOMAIN started :
        (FirstOfSession(i) /\ OnOwnClock(i)) => started[i].at = started[i].clock

\* C22: no frame is handed to sendRealtimeInput after stopVoiceSession has
\* run and before the next startVoiceSession, whether the stop came while
\* the session was capturing, while a frame waited for the session promise,
\* or while the connection was still opening.
C22_NoFrameAfterStop == \A i \in DOMAIN sent : ~sent[i].halted

\* A pending getUserMedia request ends without a stream.
Denied == micPending' = micPending - 1 /\ streams' = streams

Closing == state # "CLOSED" /\ state' = "CLOSED"

\* C24: when an active session is stopped, it holds nothing afterwards: no
\* connected capture node, no live microphone stream, no tracked source, no
\* session handle, no session that is connecting or open, and isVoiceActive
\* is false.
C24_StopReleasesAll ==
    [][(isVoiceActive /\ Closing) =>
        /\ ~isVoiceActive'
        /\ sourcesRef' = {}
        /\ sessionRef' = 0
        /\ liveStreams' = {}
        /\ connectedProcessors' = {}
        /\ \A k \in DOMAIN sessions' : sessions'[k] \notin {"connecting", "open"}
    ]_vars

\* What stopVoiceSession reads and writes.
VoiceState ==
    [isVoiceActive |-> isVoiceActive, isAiSpeaking |-> isAiSpeaking,
     streamRef |-> streamRef, liveStreams |-> liveStreams,
     scriptProcessorRef |-> scriptProcessorRef,
     connectedProcessors |-> connectedProcessors,
     sessionRef |-> sessionRef, sourcesRef |-> sourcesRef, stopped |-> stopped]

\* stopVoiceSession as a function of that state.
StopOf(v) ==
    [v EXCEPT !.isVoiceActive = FALSE, !.isAiSpeaking = FALSE,
              !.liveStreams = @ \ {v.streamRef},
              !.connectedProcessors = @ \ {v.scriptProcessorRef},
              !.sessionRef = 0,
              !.stopped = @ \cup v.sourcesRef,
              !.sourcesRef = {}]

\* No session is active: none was ever started, or the last one was stopped
\* and none was started since.
NoSessionActive == ~isVoiceActive /\ (streams = 0 \/ halted)

\* Applied twice in a row, stopVoiceSession leaves the state that one
\* application leaves.
StopTwiceAsOnce ==
    /\ [][Closing => VoiceState' = StopOf(VoiceState)]_vars
    /\ [](StopOf(StopOf(VoiceState)) = StopOf(VoiceState))

\* C25: stopVoiceSession is idempotent: it changes nothing when no session is
\* active, and applied twice in a row it leaves the state that one
\* application leaves.
C25_StopIdempotent ==
    /\ StopTwiceAsOnce
    /\ [][(Closing /\ NoSessionActive) => VoiceState' = VoiceState]_vars

\* The start control of the voice tab is rendered.
StartOffered == VoiceTabShown /\ ~isVoiceActive

\* The session held in sessionRef has failed to connect or has been dropped.
CurrentSessionLost ==
    sessionRef # 0 /\ sessions[sessionRef] \in {"failed", "dropped"}

\* C26: a session whose connection fails to open or drops shows as closed:
\* isVoiceActive is false, its microphone stream and capture node are
\* released, and the start control is offered again while the voice tab is
\* shown.
C26_LostSessionIsClosed ==
    CurrentSessionLost =>
        /\ ~isVoiceActive
        /\ sessionRef \notin liveStreams
        /\ sessionRef \notin connectedProcessors
        /\ VoiceTabShown => StartOffered

\* The sessions whose microphone stream is live.
LiveSessions == {k \in DOMAIN sessions : k \in liveStreams}

\* C27: at most one session is live at a time, and the widget's handles are
\* those of that session: every live microphone stream and every connected
\* capture node is the one held in streamRef and scriptProcessorRef, which
\* the next stop releases.
C27_SingleOwner ==
    /\ Cardinality(LiveSessions) <= 1
    /\ liveStreams \subseteq {streamRef}
    /\ connectedProcessors \subseteq {scriptProcessorRef}

\* C28: capture is wired by onopen only: a session whose onopen has not been
\* called has no capture node and no frame captured or sent, and every frame
\* given to sendRealtimeInput goes to the session whose onopen made the node
\* that captured it, after that session confirmed open.
C28_CaptureOnlyWhenOpen ==
    /\ \A k \in DOMAIN sessions :
        sessions[k] \notin Confirmed =>
            /\ k \notin connectedProcessors
            /\ scriptProcessorRef # k
            /\ \A i \in DOMAIN waiting : waiting[i].from # k
            /\ \A i \in DOMAIN sent : sent[i].from # k
    /\ \A i \in DOMAIN sent : sent[i].session = sent[i].from /\ sent[i].opened

C28_Witness ==
    /\ Len(sessions) = 2
    /\ sessions[1] = "open" /\ sessions[2] = "connecting"
    /\ 2 \in liveStreams
    /\ \E i \in DOMAIN sent : sent[i].from = 1

\* C29: the frames of a session reach sendRealtimeInput in the order of their
\* capture, also those captured before the session promise resolved: a frame
\* sent later was captured later, and no frame still waiting was captured
\* before one already sent.
C29_CaptureOrder ==
    /\ \A i, j \in DOMAIN sent :
        (i < j /\ sent[i].from = sent[j].from) => sent[i].seq < sent[j].seq
    /\ \A i \in DOMAIN sent, j \in DOMAIN waiting :
        sent[i].from = waiting[j].from => sent[i].seq < waiting[j].seq

C29_Witness ==
    /\ Len(sent) = 2
    /\ sent[1].from = sent[2].from
    /\ sent[1].waited /\ sent[2].waited
    /\ sent[1].seq < sent[2].seq

(***************************************************************************)
(* Properties of the outcome of handleEstimate.                            *)
(***************************************************************************)
\* The awaited getEstimate has settled and handleEstimate runs to its end.
Settles == estPhase = "running" /\ estPhase' # "running"

\* C30: when getEstimate fails, handleEstimate raises the failure notice,
\* stores no result, leaves the selection as it was and shows the form
\* again; when it succeeds, the returned estimate is stored and shown.  The
\* timer of the loading messages is cleared either way, and no other step
\* raises the notice.
C30_EstimateOutcome ==
    /\ [][(Settles /\ rrState = "thrown") =>
            /\ estAlert' = "Estimation failed. Please check your connection."
            /\ result' = result
            /\ selectedUpsellIds' = selectedUpsellIds
            /\ state' = "IDLE"
            /\ interval' = -1
         ]_vars
    /\ [][(Settles /\ rrState = "returned") =>
            /\ estAlert' = estAlert
            /\ result' = <<returned>>
            /\ state' = "RESULT"
            /\ interval' = -1
         ]_vars
    /\ [][estAlert' # estAlert => (Settles /\ rrState = "thrown")]_vars
    /\ [](estPhase # "running" => interval = -1)

C30_Witness ==
    /\ estPhase = "failed"
    /\ state = "IDLE"
    /\ interval = -1
    /\ estAlert = "Estimation failed. Please check your connection."
    /\ invocations = DefaultRetries + 1
    /\ result # <<>> /\ selectedUpsellIds # <<>>

(***************************************************************************)
(* Properties of the scheduling of a decoded frame.                        *)
(***************************************************************************)
\* C31: a frame is started at the greater of the cursor and the audio clock
\* as they are when source.start is called, so never at a time the clock has
\* passed, also when the clock advanced while the frame was decoded; the
\* cursor is then the start time plus the frame's duration.
C31_StartAtHandOff ==
    /\ [](\A i \in DOMAIN started : started[i].at >= started[i].clock)
    /\ [][Len(started') > Len(started) =>
            nextStartTimeRef' = started'[Len(started')].at
                                    + started'[Len(started')].duration]_vars

(***************************************************************************)
(* The voice agent with progress: a suspended call of onmessage resumes,   *)
(* the `ended` event of a finished source is delivered, and the clock runs *)
(* as far as it is followed.                                               *)
(***************************************************************************)
FairSpecVoice ==
    /\ SpecVoice
    /\ WF_vars(OnMessageResume)
    /\ WF_vars(OnEnded)
    /\ WF_vars(Tick)

\* C32: when no more frames arrive and every started source has ended,
\* isAiSpeaking becomes false and stays false, also when the decoding of a
\* frame failed and when the session was stopped with sources in flight.
C32_SpeakingEnds ==
    <>[](playing = {} /\ decoding = <<>>) => <>[](~isAiSpeaking)

(***************************************************************************)
(* AIWidget: the lead form.  The profile's leadGenConfig is the one of     *)
(* INITIAL_CONFIG; an estimate has been returned and is shown.             *)
(***************************************************************************)
\* INITIAL_CONFIG.leadGenConfig.fields
LeadGenFields ==
    [name        |-> [visible |-> TRUE,  required |-> TRUE],
     email       |-> [visible |-> TRUE,  required |-> TRUE],
     phone       |-> [visible |-> TRUE,  required |-> TRUE],
     city        |-> [visible |-> TRUE,  required |-> FALSE],
     company     |-> [visible |-> FALSE, required |-> FALSE],
     notes       |-> [visible |-> TRUE,  required |-> FALSE],
     customField |-> [visible |-> FALSE, required |-> FALSE],
     serviceType |-> [visible |-> TRUE,  required |-> TRUE],
     date        |-> [visible |-> TRUE,  required |-> FALSE],
     time        |-> [visible |-> FALSE, required |-> FALSE]]

\* The number of fields of one step of the form.
FieldsPerStep == 2

\* leadSteps: the visible fields in groups of two, or one empty group.
leadSteps ==
    LET fields == SelectSeq(LeadFields, LAMBDA f : LeadGenFields[f].visible)
        n == (Len(fields) + FieldsPerStep - 1) \div FieldsPerStep
        Last(g) == IF g * FieldsPerStep <= Len(fields) THEN g * FieldsPerStep
                   ELSE Len(fields)
    IN IF n > 0
       THEN [g \in 1..n |-> SubSeq(fields, (g - 1) * FieldsPerStep + 1, Last(g))]
       ELSE << <<>> >>

\* leadSteps[leadFormStep] || []
currentStepFields ==
    IF leadFormStep + 1 \in DOMAIN leadSteps THEN leadSteps[leadFormStep + 1] ELSE <<>>

isLastStep == leadFormStep = Len(leadSteps) - 1

LeadFormShown == state = "LEAD_FORM" /\ mode = "text"

\* What the visitor types into a field.
LeadSample(f) == IF f = "email" THEN "ann@example.com" ELSE "Ann"

\* onChange of a field of the current step.
SetLeadInfo ==
    /\ NoMicrotask
    /\ LeadFormShown
    /\ \E f \in Range(currentStepFields) :
        leadInfo' = [leadInfo EXCEPT ![f] = IF @ = "" THEN LeadSample(f) ELSE ""]
    /\ UNCHANGED <<leadPhase, supabaseConfigured, leadPayloads, leadLog>>
    /\ UNCHANGED <<widgetVars, estVars, sessVars, playVars, pcmVars, capVars>>
    /\ UNCHANGED <<rrVars, obsVars, cjVars, scanVars, appVars>>

\* The back button of the lead form.
LeadBack ==
    /\ NoMicrotask
    /\ LeadFormShown
    /\ IF leadFormStep = 0
       THEN state' = "RESULT" /\ UNCHANGED leadFormStep
       ELSE leadFormStep' = leadFormStep - 1 /\ UNCHANGED state
    /\ UNCHANGED <<mode, widgetConfig, estVars, sessVars, playVars, pcmVars, capVars,
                   leadVars>>
    /\ UNCHANGED <<rrVars, obsVars, cjVars, scanVars, appVars>>

\* The payload handleLeadSubmit builds (created_at and urgency left out).
LeadPayload ==
    [lead |-> leadInfo,
     estimate_range |->
        IF result = <<>> THEN <<>>
        ELSE totalCostDisplay(result[1], widgetConfig, selectedUpsellIds),
     task_description |-> task.description,
     metadata |-> [zipCode |-> task.zipCode, upsells |-> selectedUpsellIds]]

\* The browser submits the form only when the required fields shown are
\* filled.
StepValid ==
    \A f \in Range(currentStepFields) : LeadGenFields[f].required => leadInfo[f] # ""

\* handleNextStep; on the last step handleLeadSubmit up to its first await:
\* the insert when the lead store is configured, dispatchResendQuote if not.
HandleNextStep ==
    /\ NoMicrotask
    /\ LeadFormShown
    /\ StepValid
    /\ IF isLastStep
       THEN /\ leadPhase \in {"none", "done"}
            /\ state' = "LOADING"
            /\ loadingMessage' = "Securing your spot..."
            /\ IF supabaseConfigured
               THEN /\ leadPayloads' = Append(leadPayloads, LeadPayload)
                    /\ leadPhase' = "insert"
               ELSE /\ leadPhase' = "dispatch"
                    /\ UNCHANGED leadPayloads
            /\ UNCHANGED leadFormStep
       ELSE /\ leadFormStep' = leadFormStep + 1
            /\ UNCHANGED <<state, loadingMessage, leadPhase, leadPayloads>>
    /\ UNCHANGED <<leadInfo, supabaseConfigured, leadLog>>
    /\ UNCHANGED <<task, result, selectedUpsellIds, interval, estAlert, estPhase,
                   estRequests, estResponse>>
    /\ UNCHANGED <<mode, widgetConfig, sessVars, playVars, pcmVars, capVars>>
    /\ UNCHANGED <<rrVars, obsVars, cjVars, scanVars, appVars>>

\* What becomes of the insert: it resolves without an error, resolves with
\* one, or rejects.
InsertOutcomes == {"ok", "error", "throws"}

InsertSettlesReportsError ==
    /\ decoding = <<>>
    /\ leadPhase = "insert"
    /\ \E outcome \in InsertOutcomes :
        CASE outcome = "ok" ->
                leadPhase' = "dispatch" /\ UNCHANGED <<state, leadLog, estAlert>>
          [] outcome = "error" ->
                /\ leadPhase' = "done"
                /\ leadLog' = Append(leadLog, "Lead saving error:")
                /\ estAlert' = "Lead saving error:"
                /\ state' = "LEAD_FORM"
          [] outcome = "throws" ->
                /\ leadPhase' = "done"
                /\ leadLog' = Append(leadLog, "Submission error:")
                /\ state' = "SUCCESS"
                /\ UNCHANGED estAlert
    /\ UNCHANGED <<leadInfo, supabaseConfigured, leadPayloads>>
    /\ UNCHANGED <<task, result, selectedUpsellIds, loadingMessage, interval, estPhase,
                   estRequests, estResponse>>
    /\ UNCHANGED <<mode, leadFormStep, widgetConfig, sessVars, playVars, pcmVars, capVars>>
    /\ UNCHANGED <<rrVars, obsVars, cjVars, scanVars, appVars>>

\* handleLeadSubmit after `await supabase.from('leads').insert(...)`: an
\* error returned is logged and the handler goes on to dispatchResendQuote;
\* a rejection is logged in the catch clause, which sets SUCCESS.
InsertSettles ==
    /\ decoding = <<>>
    /\ leadPhase = "insert"
    /\ \E outcome \in InsertOutcomes :
        CASE outcome = "ok" ->
                leadPhase' = "dispatch" /\ UNCHANGED <<state, leadLog>>
          [] outcome = "error" ->
                /\ leadPhase' = "dispatch"
                /\ leadLog' = Append(leadLog, "Lead saving error:")
                /\ UNCHANGED state
          [] outcome = "throws" ->
                /\ leadPhase' = "done"
                /\ leadLog' = Append(leadLog, "Submission error:")
                /\ state' = "SUCCESS"
    /\ UNCHANGED <<leadInfo, supabaseConfigured, leadPayloads>>
    /\ UNCHANGED estVars
    /\ UNCHANGED <<mode, leadFormStep, widgetConfig, sessVars, playVars, pcmVars, capVars>>
    /\ UNCHANGED <<rrVars, obsVars, cjVars, scanVars, appVars>>

\* handleLeadSubmit after `await dispatchResendQuote(...)`, which logs the
\* lead and resolves at once.
DispatchResumes ==
    /\ decoding = <<>>
    /\ leadPhase = "dispatch"
    /\ leadPhase' = "done"
    /\ state' = "SUCCESS"
    /\ UNCHANGED <<leadInfo, supabaseConfigured, leadPayloads, leadLog>>
    /\ UNCHANGED estVars
    /\ UNCHANGED <<mode, leadFormStep, widgetConfig, sessVars, playVars, pcmVars, capVars>>
    /\ UNCHANGED <<rrVars, obsVars, cjVars, scanVars, appVars>>

\* The button of the SUCCESS view.
SuccessReset ==
    /\ NoMicrotask
    /\ state = "SUCCESS" /\ mode = "text"
    /\ state' = "IDLE"
    /\ result' = <<>>
    /\ leadFormStep' = 0
    /\ leadInfo' = EmptyLead
    /\ UNCHANGED <<leadPhase, supabaseConfigured, leadPayloads, leadLog>>
    /\ UNCHANGED <<task, selectedUpsellIds, loadingMessage, interval, estAlert, estPhase,
                   estRequests, estResponse>>
    /\ UNCHANGED <<mode, widgetConfig, sessVars, playVars, pcmVars, capVars>>
    /\ UNCHANGED <<rrVars, obsVars, cjVars, scanVars, appVars>>

\* The estimates the lead form is entered with.
LeadEstimates == {"estFull", "estEmptyIds", "estGhostIds"}

\* The widget after handleEstimate has shown an estimate got on the first
\* attempt.
InitLead ==
    /\ rrState = "returned"
    /\ rrError = NoError /\ thrown = NoError
    /\ invocations = 1 /\ failures = 0 /\ allQuota = TRUE
    /\ lastRaised = NoError /\ waits = <<>> /\ clock = 0
    /\ argRetries = DefaultRetries /\ retries = DefaultRetries
    /\ argDelay = DefaultInitialDelay /\ initialDelay = DefaultInitialDelay
    /\ CleanIdle /\ ScanIdle /\ AppIdle
    /\ state = "RESULT" /\ mode = "text" /\ leadFormStep = 0
    /\ widgetConfig \in WidgetConfigs
    /\ task = [description |-> "Estimate for 2000 sq ft home?", zipCode |-> "90210"]
    /\ \E tok \in LeadEstimates :
        /\ estResponse = TextResponse(ObjectText(tok), <<>>)
        /\ returned = getEstimate(estResponse).data
    /\ result = <<returned>>
    /\ selectedUpsellIds = SuggestedIds(returned)
    /\ loadingMessage = "Agent thinking..." /\ interval = -1
    /\ estAlert = "" /\ estPhase = "shown"
    /\ estRequests = <<UpsellPrompt(widgetConfig)>>
    /\ SessionIdle /\ PlaybackIdle /\ PcmIdle /\ CaptureIdle
    /\ leadInfo = EmptyLead /\ leadPhase = "none"
    /\ supabaseConfigured \in BOOLEAN
    /\ leadPayloads = <<>> /\ leadLog = <<>>

NextLead ==
    \/ ToggleWidget
    \/ ToggleUpsell
    \/ LeaveResult
    \/ SetLeadInfo
    \/ LeadBack
    \/ HandleNextStep
    \/ InsertSettles
    \/ DispatchResumes
    \/ SuccessReset

SpecLead == InitLead /\ [][NextLead]_vars

(***************************************************************************)
(* Properties of the widget around an estimate and a lead.                 *)
(***************************************************************************)
\* C33: an estimate that settles after the widget was closed is ignored: the
\* widget stays closed.
C33_AbandonedEstimateIgnored ==
    [][(state = "CLOSED" /\ Settles) => state' = "CLOSED"]_vars

\* C34: every selected upsell id is the id of a recommendation of the
\* profile with isApproved = true, whatever ids the backend suggested and
\* whatever the visitor toggles.
C34_SelectedAreApproved ==
    Range(selectedUpsellIds) \subseteq ApprovedIds(widgetConfig)

\* The amount of the offered recommendations that are selected.
OfferedExtra(est, cfg, selected) ==
    LET offered == relevantUpsells(est, cfg)
    IN SumSeq([i \in 1..Len(offered) |->
                  IF offered[i].id \in Range(selected)
                  THEN PriceAmount(offered[i].suggestedPrice) ELSE 0])

\* The total that adds that amount to the base costs.
OfferedTotal(est, cfg, selected) ==
    LET min == CostOr0(est, "baseMinCost") + OfferedExtra(est, cfg, selected)
        max == CostOr0(est, "baseMaxCost") + OfferedExtra(est, cfg, selected)
    IN IF max > min THEN <<formatCurrency(min), "-", formatCurrency(max)>>
       ELSE <<formatCurrency(min)>>

\* C35: the total shown adds to the base costs the amounts of exactly the
\* recommendations that are offered and selected; none that is unapproved or
\* not offered contributes.  A range shown has its low bound at or below its
\* high bound.
C35_TotalAddsOfferedOnly ==
    result # <<>> =>
        LET shown == totalCostDisplay(result[1], widgetConfig, selectedUpsellIds)
        IN /\ shown = OfferedTotal(result[1], widgetConfig, selectedUpsellIds)
           /\ Len(shown) = 3 => shown[1][2] <= shown[3][2]

\* handleLeadSubmit is between its first statement and its last.
Submitting == leadPhase \in {"insert", "dispatch"}

\* C36: a lead submission ends in SUCCESS: handleLeadSubmit, called from the
\* last step of the lead form, shows LOADING and then SUCCESS, whether the
\* lead store is not configured, the insert returns an error or it rejects;
\* it never shows the lead form again, tells the visitor of no failure, and
\* changes neither the stored estimate nor the fields of the lead.
C36_LeadEndsInSuccess ==
    /\ [][(~Submitting /\ Submitting') =>
            /\ state = "LEAD_FORM" /\ isLastStep
            /\ state' = "LOADING"
            /\ loadingMessage' = "Securing your spot..."
         ]_vars
    /\ [][(Submitting /\ ~Submitting') => (leadPhase' = "done" /\ state' = "SUCCESS")]_vars
    /\ [][(Submitting \/ Submitting') =>
            /\ state' # "LEAD_FORM"
            /\ result' = result /\ leadInfo' = leadInfo
            /\ estAlert' = estAlert /\ voiceAlert' = voiceAlert
         ]_vars

C36_Witness ==
    /\ state = "SUCCESS"
    /\ leadPhase = "done"
    /\ supabaseConfigured
    /\ leadLog = <<"Lead saving error:">>
    /\ result # <<>>
    /\ leadInfo.name # ""

====
